---- MODULE Spec2Model ----
(***************************************************************************)
(* A model of lidrs: the IES LM-63 and EULUMDAT parsers, the conversion of *)
(* a parsed document into the planes of a photometric web, and the web.    *)
(*                                                                         *)
(* Numbers.  The code stores f64; the model stores integers.  A token of   *)
(* the text is either a decimal integer literal or a text that parses as   *)
(* no number.  Angles in degrees are integers; an angle in radians is kept *)
(* as an integer count of PI/360 radians, so that PI is the integer 360,   *)
(* degrees_to_radians doubles its argument and halving a difference of two *)
(* converted angles is exact.  The comparisons `<= f64::EPSILON` of the    *)
(* code are equalities here.                                               *)
(***************************************************************************)
EXTENDS Integers, Sequences, FiniteSets, TLC

VARIABLES
    pc,        \* what the caller did last: "idle", or the name of the last call
    iesText,   \* the text handed to IesFile::parse (sequence of lines)
    ies,       \* the IesFile object
    iesRes,    \* what IesFile::parse returned
    ldtText,   \* the text handed to EulumdatFile::parse (sequence of lines)
    ldt,       \* the EulumdatFile object
    ldtRes,    \* what EulumdatFile::parse returned
    web,       \* the planes of the PhotometricWeb built by From<..>::from
    conv,      \* outcome of the conversion: "none", "ok" or "abort" (a panic)
    build,     \* the build profile: "debug" checks integer overflow, "release" wraps
    given,       \* the argument of the last call on a web, a list of webs or a path
    returned        \* what that call returned

vars == <<pc, build, iesText, ies, iesRes, ldtText, ldt, ldtRes, web, conv, given, returned>>

(***************************************************************************)
(* Bounds of the model.                                                    *)
(***************************************************************************)
MaxV == 2          \* largest declared n_vertical_angles
MaxH == 3          \* largest declared n_horizontal_angles
MaxCandLines == 3  \* largest number of candela lines in a text
MaxMc == 5         \* largest declared number of C-planes
MaxNg == 2         \* largest declared number of intensities per C-plane
MaxLampSets == 2   \* largest declared number of lamp sets
MaxInt == 6        \* largest number of intensity lines written in a text
MaxCut == 2        \* largest number of declared lines cut off the end of a text
MaxPlanes == 4     \* largest number of planes handed to set_planes directly
MaxCd == 2         \* largest base intensity of a plane handed to set_planes
MaxWebs == 3       \* largest number of webs handed to average_photmetric_web_intensities

(***************************************************************************)
(* Angles (util/geom/angles.rs).                                           *)
(***************************************************************************)
PI == 360
FRAC_PI_2 == PI \div 2

degrees_to_radians(degree) == (degree * PI) \div 180

Abs(x) == IF x < 0 THEN -x ELSE x
Min(a, b) == IF a < b THEN a ELSE b

(***************************************************************************)
(* Results and errors.  One record shape for every error of ies/err.rs and *)
(* eulumdat/err.rs: kind, line number, item number, expected and found.    *)
(***************************************************************************)
Err(kind, line, item, a, b) ==
    [kind |-> kind, line |-> line, item |-> item, a |-> a, b |-> b]
OkRes == Err("Ok", 0, 0, 0, 0)
NotRun == Err("NotRun", 0, 0, 0, 0)
IsOk(r) == r.kind = "Ok"
IsErr(r) == r.kind \notin {"Ok", "NotRun"}

(***************************************************************************)
(* Text.  A line is a record: k is the shape of the line, s its text part, *)
(* v the value of a keyword line, toks the tokens DELIMITERS_PATTERN       *)
(* splits the trimmed line into.                                           *)
(*   "std"  a line that is one of the standard identifiers (s)             *)
(*   "kw"   a line `[s] v`                                                 *)
(*   "tilt" a line `TILT=s`                                                *)
(*   "num"  a line of tokens (a blank line when toks is empty)             *)
(* trail says that a space follows the last token of the line.             *)
(***************************************************************************)
Tok(n) == [ok |-> TRUE, v |-> n]
BadTok == [ok |-> FALSE, v |-> 0]
Toks(ns) == [i \in 1..Len(ns) |-> Tok(ns[i])]

StdLine(s) == [k |-> "std", s |-> s, v |-> <<>>, toks |-> <<>>, trail |-> FALSE]
KwLine(key, val) == [k |-> "kw", s |-> key, v |-> val, toks |-> <<>>, trail |-> FALSE]
TiltLine(s) == [k |-> "tilt", s |-> s, v |-> <<>>, toks |-> <<>>, trail |-> FALSE]
NumLine(toks) == [k |-> "num", s |-> "", v |-> <<>>, toks |-> toks, trail |-> FALSE]
\* a line of tokens each followed by one space
NumLineTrailing(toks) == [k |-> "num", s |-> "", v |-> <<>>, toks |-> toks, trail |-> TRUE]

\* str.parse::<usize>() and str.parse::<f64>() of a token
ParsesUsize(tok) == tok.ok /\ tok.v >= 0
ParsesFloat(tok) == tok.ok
\* str.parse::<u8>()
ParsesU8(tok) == tok.ok /\ tok.v >= 0 /\ tok.v <= 255

\* split_regex.split(str.trim()): a blank line yields one empty token, and a
\* line that is not numeric yields text that parses as no number.
LineTokens(line) ==
    IF line.k = "num" /\ Len(line.toks) > 0 THEN line.toks ELSE <<BadTok>>

\* split_regex.split(line) of a line that is not trimmed: the space after
\* the last token is followed by one more, empty, token
UntrimmedTokens(line) ==
    IF line.trail THEN LineTokens(line) \o <<BadTok>> ELSE LineTokens(line)

\* line.parse::<u8>() of a whole line
LineParsesU8(line) ==
    line.k = "num" /\ Len(line.toks) = 1 /\ ~line.trail /\ ParsesU8(line.toks[1])

\* line.starts_with("TILT=")
IsTiltLine(line) == line.k = "tilt"

\* lines().position(|line| line.starts_with("TILT=")), 0-based; -1 for None
RECURSIVE PositionFrom(_, _)
PositionFrom(lines, i) ==
    IF i > Len(lines) THEN -1
    ELSE IF IsTiltLine(lines[i]) THEN i - 1
    ELSE PositionFrom(lines, i + 1)
TiltPosition(lines) == PositionFrom(lines, 1)

(***************************************************************************)
(* IesStandard (io/ies/standard.rs)                                        *)
(***************************************************************************)
IesStandardFrom(line) ==
    IF line.k = "std" /\ line.s = "IESNA91" THEN "Iesna1991"
    ELSE IF line.k = "std" /\ line.s = "IESNA:LM-63-1995" THEN "Iesna1995"
    ELSE IF line.k = "std" /\ line.s = "IESNA:LM-63-2002" THEN "Iesna2002"
    ELSE "Iesna1986"

(***************************************************************************)
(* IesFile (io/ies/ies_file.rs)                                            *)
(***************************************************************************)
EmptyMap == [x \in {} |-> <<>>]
NoTilt == [some |-> FALSE, lamp_to_lumminaire_geometry |-> 0, no_tilt_angles |-> 0,
           angles |-> <<>>, multiplying_factors |-> <<>>]

\* IesFile::new(): every field at its Default
IesFileNew ==
    [standard |-> "Iesna1986",
     keywords |-> EmptyMap,
     tilt |-> NoTilt,
     n_lamps |-> 0,
     lumens_per_lamp |-> 0,
     candela_multiplying_factor |-> 0,
     n_vertical_angles |-> 0,
     n_horizontal_angles |-> 0,
     photometric_type |-> "TypeC",
     luminous_opening_units |-> "Meters",
     luminous_opening_width |-> 0,
     luminous_opening_length |-> 0,
     luminous_opening_height |-> 0,
     ballast_factor |-> 0,
     input_watts |-> 0,
     vertical_angles |-> <<>>,
     horizontal_angles |-> <<>>,
     candela_values |-> <<>>]

\* HashMap::insert
MapInsert(m, key, val) ==
    [x \in DOMAIN m \cup {key} |-> IF x = key THEN val ELSE m[x]]

\* kw_regex.captures_iter(line).nth(0) is Some
IsKeywordLine(line) == line.k = "kw"

\* The errors of the keyword lines, in file order.  iline is the 0-based
\* index of the line in the whole text (enumerate() runs before skip()).
RECURSIVE KeywordErrors(_, _, _, _)
KeywordErrors(lines, start, iline, end) ==
    IF iline >= end THEN <<>>
    ELSE (IF IsKeywordLine(lines[iline + 1]) THEN <<>>
          ELSE <<Err("InvalidKeyword", start + iline + 1, 0, 0, 0)>>)
         \o KeywordErrors(lines, start, iline + 1, end)

\* The loop over the keyword pairs: st is [kw |-> map, prev |-> <<>> or <<key>>,
\* panic |-> BOOLEAN].  A [MORE] line with no earlier keyword unwraps None.
RECURSIVE KeywordLoop(_, _, _, _)
KeywordLoop(lines, iline, end, st) ==
    IF iline >= end \/ st.panic THEN st
    ELSE LET line == lines[iline + 1] IN
         KeywordLoop(lines, iline + 1, end,
            IF line.s = "MORE"
            THEN IF st.prev = <<>>
                 THEN [st EXCEPT !.panic = TRUE]
                 ELSE [st EXCEPT !.kw = MapInsert(st.kw, st.prev[1],
                                           st.kw[st.prev[1]] \o <<" ">> \o line.v)]
            ELSE [st EXCEPT !.prev = <<line.s>>,
                            !.kw = MapInsert(st.kw, line.s, line.v)])

\* IesFile::parse_keywords
parse_keywords(doc, lines) ==
    LET start == IF doc.standard = "Iesna1986" THEN 0 ELSE 1
        end == TiltPosition(lines)
    IN  IF end = -1 THEN [doc |-> doc, res |-> Err("TiltNotDefined", 0, 0, 0, 0)]
        ELSE LET errors == KeywordErrors(lines, start, start, end)
                 st == KeywordLoop(lines, start, end,
                                   [kw |-> doc.keywords, prev |-> <<>>, panic |-> FALSE])
             IN  IF errors # <<>> THEN [doc |-> doc, res |-> errors[1]]
                 ELSE IF st.panic
                      THEN [doc |-> [doc EXCEPT !.keywords = st.kw],
                            res |-> Err("Panic", 0, 0, 0, 0)]
                      ELSE [doc |-> [doc EXCEPT !.keywords = st.kw], res |-> OkRes]

(***************************************************************************)
(* Tilt (io/ies/tilt.rs)                                                   *)
(***************************************************************************)
\* the first token of the sequence that parses as no f32, 0 when all parse
RECURSIVE FirstBadToken(_, _)
FirstBadToken(toks, i) ==
    IF i > Len(toks) THEN 0
    ELSE IF ~ParsesFloat(toks[i]) THEN i
    ELSE FirstBadToken(toks, i + 1)

TokenValues(toks) == [i \in 1..Len(toks) |-> toks[i].v]

\* One line of the sub-table, iline 0-based within the sub-table.
TiltLineStep(tilt, iline, line) ==
    LET toks == UntrimmedTokens(line) IN
    CASE iline = 0 ->
           IF LineParsesU8(line)
           THEN [tilt |-> [tilt EXCEPT !.lamp_to_lumminaire_geometry = line.toks[1].v],
                 err |-> <<>>]
           ELSE [tilt |-> tilt, err |-> <<Err("ParseIntError", iline, 0, 0, 0)>>]
      [] iline = 1 ->
           IF LineParsesU8(line)
           THEN [tilt |-> [tilt EXCEPT !.no_tilt_angles = line.toks[1].v], err |-> <<>>]
           ELSE [tilt |-> tilt, err |-> <<Err("ParseIntError", iline, 0, 0, 0)>>]
      [] iline = 2 ->
           IF FirstBadToken(toks, 1) # 0
           THEN [tilt |-> tilt, err |-> <<Err("ParseFloatError", iline, 0, 0, 0)>>]
           ELSE IF Len(toks) = tilt.no_tilt_angles
                THEN [tilt |-> [tilt EXCEPT !.angles = TokenValues(toks)], err |-> <<>>]
                ELSE [tilt |-> tilt,
                      err |-> <<Err("ArrayIncorrectLength", iline,
                                    tilt.no_tilt_angles, Len(toks), 0)>>]
      [] iline = 3 ->
           IF FirstBadToken(toks, 1) # 0
           THEN [tilt |-> tilt, err |-> <<Err("ParseFloatError", iline, 0, 0, 0)>>]
           ELSE IF Len(toks) = tilt.no_tilt_angles
                THEN [tilt |-> [tilt EXCEPT !.multiplying_factors = TokenValues(toks)],
                      err |-> <<>>]
                ELSE [tilt |-> tilt,
                      err |-> <<Err("ArrayIncorrectLength", iline,
                                    tilt.no_tilt_angles, Len(toks), 0)>>]
      [] OTHER -> [tilt |-> tilt, err |-> <<Err("TiltFiltTooLong", iline, 0, 0, 0)>>]

RECURSIVE TiltLines(_, _, _, _)
TiltLines(tilt_lines, iline, tilt, errors) ==
    IF iline >= Len(tilt_lines) THEN [tilt |-> tilt, errors |-> errors]
    ELSE LET r == TiltLineStep(tilt, iline, tilt_lines[iline + 1]) IN
         IF r.err = <<>> THEN TiltLines(tilt_lines, iline + 1, r.tilt, errors)
         ELSE TiltLines(tilt_lines, iline + 1, r.tilt, errors \o r.err)

\* Tilt::parse
TiltParse(tilt_lines) ==
    LET r == TiltLines(tilt_lines, 0, [NoTilt EXCEPT !.some = TRUE], <<>>) IN
    IF r.errors = <<>> THEN [tilt |-> r.tilt, res |-> OkRes]
    ELSE [tilt |-> NoTilt, res |-> r.errors[1]]

\* IesFile::parse_tilt.  A TILT= line that names a file is read with
\* Tilt::from_file; no such file exists here, so File::open fails.
parse_tilt(doc, lines) ==
    LET val == TiltPosition(lines) IN
    IF val = -1 THEN [doc |-> doc, res |-> Err("TiltNotDefined", 0, 0, 0, 0)]
    ELSE LET arg == lines[val + 1].s
             tilt_res ==
               IF arg = "NONE" THEN [tilt |-> NoTilt, res |-> OkRes]
               ELSE IF arg = "INCLUDE"
                    THEN TiltParse(SubSeq(lines, val + 2, Min(val + 5, Len(lines))))
                    ELSE [tilt |-> NoTilt, res |-> Err("TileFileIOError", 0, 0, 0, 0)]
         IN  IF IsOk(tilt_res.res)
             THEN [doc |-> [doc EXCEPT !.tilt = tilt_res.tilt], res |-> OkRes]
             ELSE [doc |-> doc, res |-> tilt_res.res]

(***************************************************************************)
(* IesFile::parse_properties                                               *)
(***************************************************************************)
\* IesPhotometryType::try_from
PhotometryTypeFrom(val) ==
    CASE val = 1 -> "TypeC" [] val = 2 -> "TypeB" [] val = 3 -> "TypeA" [] OTHER -> "Invalid"

\* LuminousOpeningUnits::from
LuminousOpeningUnitsFrom(val) == IF val = 1 THEN "Feet" ELSE "Meters"

\* The tokens of the lines after the TILT section, each with the 1-based
\* number of its line: (start_line + iline + 1, token).
RECURSIVE FlattenLines(_, _, _)
FlattenLines(lines, start_line, iline) ==
    IF start_line + iline + 1 > Len(lines) THEN <<>>
    ELSE LET toks == LineTokens(lines[start_line + iline + 1]) IN
         [i \in 1..Len(toks) |-> [line |-> start_line + iline + 1, tok |-> toks[i]]]
         \o FlattenLines(lines, start_line, iline + 1)

IntField(doc, field, iitem, iline, item) ==
    IF ParsesUsize(item) THEN [doc |-> [doc EXCEPT ![field] = item.v], err |-> <<>>]
    ELSE [doc |-> doc, err |-> <<Err("ParseIntError", iline, iitem + 1, 0, 0)>>]

FloatField(doc, field, iitem, iline, item) ==
    IF ParsesFloat(item) THEN [doc |-> [doc EXCEPT ![field] = item.v], err |-> <<>>]
    ELSE [doc |-> doc, err |-> <<Err("ParseFloatError", iline, iitem + 1, 0, 0)>>]

PushField(doc, field, iitem, iline, item) ==
    IF ParsesFloat(item)
    THEN [doc |-> [doc EXCEPT ![field] = Append(doc[field], item.v)], err |-> <<>>]
    ELSE [doc |-> doc, err |-> <<Err("ParseFloatError", iline, iitem + 1, 0, 0)>>]

\* The body of the closure: the match on iitem (0-based), n_items the number
\* of tokens in the block.
PropertyItem(doc, iitem, iline, item, n_items) ==
    CASE iitem = 0 -> IntField(doc, "n_lamps", iitem, iline, item)
      [] iitem = 1 -> FloatField(doc, "lumens_per_lamp", iitem, iline, item)
      [] iitem = 2 -> FloatField(doc, "candela_multiplying_factor", iitem, iline, item)
      [] iitem = 3 -> IntField(doc, "n_vertical_angles", iitem, iline, item)
      [] iitem = 4 -> IntField(doc, "n_horizontal_angles", iitem, iline, item)
      [] iitem = 5 ->
           IF ParsesUsize(item)
           THEN IF PhotometryTypeFrom(item.v) # "Invalid"
                THEN [doc |-> [doc EXCEPT !.photometric_type = PhotometryTypeFrom(item.v)],
                      err |-> <<>>]
                ELSE [doc |-> doc, err |-> <<Err("FromPrimitiveError", iline, 0, 0, 0)>>]
           ELSE [doc |-> doc, err |-> <<Err("ParseIntError", iline, iitem + 1, 0, 0)>>]
      [] iitem = 6 ->
           IF ParsesUsize(item)
           THEN [doc |-> [doc EXCEPT !.luminous_opening_units =
                                         LuminousOpeningUnitsFrom(item.v)],
                 err |-> <<>>]
           ELSE [doc |-> doc, err |-> <<Err("ParseIntError", iline, iitem + 1, 0, 0)>>]
      [] iitem = 7 -> FloatField(doc, "luminous_opening_width", iitem, iline, item)
      [] iitem = 8 -> FloatField(doc, "luminous_opening_length", iitem, iline, item)
      [] iitem = 9 -> FloatField(doc, "luminous_opening_height", iitem, iline, item)
      [] iitem = 10 -> FloatField(doc, "ballast_factor", iitem, iline, item)
      [] iitem = 11 -> [doc |-> doc, err |-> <<>>]
      [] iitem = 12 -> FloatField(doc, "input_watts", iitem, iline, item)
      [] OTHER ->
           IF iitem > 12 /\ iitem <= 12 + doc.n_vertical_angles
           THEN PushField(doc, "vertical_angles", iitem, iline, item)
           ELSE IF iitem > 12 + doc.n_vertical_angles
                   /\ iitem <= 12 + doc.n_vertical_angles + doc.n_horizontal_angles
           THEN PushField(doc, "horizontal_angles", iitem, iline, item)
           ELSE IF iitem >= 12 + doc.n_vertical_angles + doc.n_horizontal_angles
           THEN PushField(doc, "candela_values", iitem, iline, item)
           ELSE [doc |-> doc,
                 err |-> <<Err("UnexpectedIitem", iline,
                               12 + doc.n_vertical_angles + doc.n_horizontal_angles,
                               n_items, 0)>>]

\* lines.iter().enumerate().map(..): every token is processed, in order, the
\* errors are collected.
RECURSIVE PropertyItems(_, _, _, _)
PropertyItems(doc, items, iitem, errs) ==
    IF iitem >= Len(items) THEN [doc |-> doc, errs |-> errs]
    ELSE LET r == PropertyItem(doc, iitem, items[iitem + 1].line,
                               items[iitem + 1].tok, Len(items))
         IN  IF r.err = <<>> THEN PropertyItems(r.doc, items, iitem + 1, errs)
             ELSE PropertyItems(r.doc, items, iitem + 1, errs \o r.err)

parse_properties(doc, lines) ==
    LET tilt_end == TiltPosition(lines) IN
    IF tilt_end = -1 THEN [doc |-> doc, res |-> Err("TiltNotDefined", 0, 0, 0, 0)]
    ELSE LET tilt_skip == IF lines[tilt_end + 1].s = "INCLUDE" THEN 5 ELSE 1
             start_line == tilt_end + tilt_skip
             items == FlattenLines(lines, start_line, 0)
             r == PropertyItems(doc, items, 0, <<>>)
         IN  IF r.errs # <<>> THEN [doc |-> r.doc, res |-> r.errs[1]]
             ELSE [doc |-> r.doc, res |-> OkRes]

\* IesFile::parse: the `?` after each stage returns its error at once.
IesParse(doc, lines) ==
    IF Len(lines) = 0 THEN [doc |-> doc, res |-> Err("EmptyFile", 0, 0, 0, 0)]
    ELSE LET properties(t) ==
                 IF ~IsOk(t.res) THEN t ELSE parse_properties(t.doc, lines)
             tilt(k) ==
                 IF ~IsOk(k.res) THEN k ELSE properties(parse_tilt(k.doc, lines))
         IN  tilt(parse_keywords([doc EXCEPT !.standard = IesStandardFrom(lines[1])],
                                 lines))

\* IesFile::vertical_angles_valid
vertical_angles_valid(angles) ==
    IF Len(angles) = 0 THEN FALSE
    ELSE IF angles[1] = 0 THEN angles[Len(angles)] = 90 \/ angles[Len(angles)] = 180
    ELSE IF angles[1] = 90 THEN angles[Len(angles)] = 180
    ELSE FALSE

\* IesFile::horizontal_angles_valid
horizontal_angles_valid(angles) ==
    IF Len(angles) = 0 THEN FALSE
    ELSE IF angles[1] = 0
         THEN \/ angles[Len(angles)] = 0
              \/ angles[Len(angles)] = 90
              \/ (angles[Len(angles)] >= 180 /\ angles[Len(angles)] <= 360)
         ELSE FALSE

(***************************************************************************)
(* Plane (photweb/plane.rs) and sequences of planes                        *)
(***************************************************************************)
DefaultWidth == [kind |-> "Default", w |-> 0, lower |-> 0, upper |-> 0]
Symmetric(w) == [kind |-> "Symmetric", w |-> w, lower |-> 0, upper |-> 0]
Asymmetric(lower, upper) == [kind |-> "Asymmetric", w |-> 0, lower |-> lower, upper |-> upper]

\* Plane::new() followed by the setters the converters call
NewPlane(angle, angles, intensities) ==
    [angle |-> angle, width |-> DefaultWidth, angles |-> angles, intensities |-> intensities]

Rev(s) == [i \in 1..Len(s) |-> s[Len(s) + 1 - i]]
Skip(s, n) == IF n >= Len(s) THEN <<>> ELSE SubSeq(s, n + 1, Len(s))
Take(s, n) == IF n >= Len(s) THEN s ELSE SubSeq(s, 1, n)
SetAngles(s, f(_)) == [i \in 1..Len(s) |-> [s[i] EXCEPT !.angle = f(s[i].angle)]]
AnglesToRadians(degs) == [i \in 1..Len(degs) |-> degrees_to_radians(degs[i])]

\* slice.chunks(n) for n > 0: consecutive blocks of n, the last one shorter
\* when Len(s) is no multiple of n.
NChunks(s, n) == (Len(s) + n - 1) \div n
Chunks(s, n) ==
    [c \in 1..NChunks(s, n) |-> SubSeq(s, (c - 1) * n + 1, Min(c * n, Len(s)))]

(***************************************************************************)
(* impl ToString for IesFile.  A number is written by Display and read     *)
(* back as the same number; what the writer adds around the numbers, the   *)
(* space after every array element and the line feeds, is kept.            *)
(***************************************************************************)
\* IesStandard's Display: no line for Iesna1986
StandardLines(standard) ==
    CASE standard = "Iesna1991" -> <<StdLine("IESNA91")>>
      [] standard = "Iesna1995" -> <<StdLine("IESNA:LM-63-1995")>>
      [] standard = "Iesna2002" -> <<StdLine("IESNA:LM-63-2002")>>
      [] OTHER -> <<>>

\* the orders a HashMap may iterate its keys in
KeyOrders(m) ==
    {o \in [1..Cardinality(DOMAIN m) -> DOMAIN m] :
        \A i, j \in 1..Cardinality(DOMAIN m) : o[i] = o[j] => i = j}

\* IesFile::keywords_to_string: one line `[key] value` per entry
keywords_to_string(keywords, order) ==
    [i \in 1..Len(order) |-> KwLine(order[i], keywords[order[i]])]

\* fold(String::new(), |accum, val| accum + &format!("{} ", val))
ArrayLine(vals) == IF vals = <<>> THEN NumLine(<<>>) ELSE NumLineTrailing(Toks(vals))

\* impl ToString for Tilt
TiltToString(tilt) ==
    <<TiltLine("INCLUDE"),
      NumLine(Toks(<<tilt.lamp_to_lumminaire_geometry>>)),
      NumLine(Toks(<<tilt.no_tilt_angles>>)),
      ArrayLine(tilt.angles),
      ArrayLine(tilt.multiplying_factors)>>

PhotometryTypeCode(t) == CASE t = "TypeC" -> 1 [] t = "TypeB" -> 2 [] OTHER -> 3
LuminousOpeningUnitsCode(u) == IF u = "Feet" THEN 1 ELSE 2

\* the candela block: one line per chunk of n_vertical_angles values, each
\* closed by a line feed, and one more line feed after the block
CandelaBlock(doc) ==
    LET chunks == Chunks(doc.candela_values, doc.n_vertical_angles) IN
    [c \in 1..Len(chunks) |-> ArrayLine(chunks[c])] \o <<NumLine(<<>>)>>

\* IesFile::to_string; chunks(0) panics
IesToString(doc, order) ==
    IF doc.n_vertical_angles = 0 THEN [panic |-> TRUE, text |-> <<>>]
    ELSE [panic |-> FALSE,
          text |->
            StandardLines(doc.standard)
            \o keywords_to_string(doc.keywords, order)
            \o (IF doc.tilt.some THEN TiltToString(doc.tilt) ELSE <<TiltLine("NONE")>>)
            \o <<NumLine(Toks(<<doc.n_lamps, doc.lumens_per_lamp,
                                 doc.candela_multiplying_factor, doc.n_vertical_angles,
                                 doc.n_horizontal_angles,
                                 PhotometryTypeCode(doc.photometric_type),
                                 LuminousOpeningUnitsCode(doc.luminous_opening_units),
                                 doc.luminous_opening_width, doc.luminous_opening_length,
                                 doc.luminous_opening_height>>)),
                  NumLine(Toks(<<doc.ballast_factor, 1, doc.input_watts>>)),
                  ArrayLine(doc.vertical_angles),
                  ArrayLine(doc.horizontal_angles)>>
            \o CandelaBlock(doc)]

\* usize subtraction a - b: with overflow checks (debug build) a panic when
\* b > a, without them (release build) a wrapped, huge count.
Huge == 1000000
SubOverflows(a, b) == b > a
WrappingSub(a, b) == IF b > a THEN Huge ELSE a - b

Planes(ps) == [panic |-> FALSE, planes |-> ps]
Panic == [panic |-> TRUE, planes |-> <<>>]

(***************************************************************************)
(* photweb/funcs.rs                                                        *)
(***************************************************************************)
MirrorAbout90(a) == (FRAC_PI_2 - a) + FRAC_PI_2
MirrorAbout180(a) == (PI - a) + PI

mirror_first_quadrant(planes) ==
    planes \o SetAngles(Skip(Rev(planes), 1), MirrorAbout90)

mirror_first_hemisphere(planes, checks) ==
    IF checks /\ SubOverflows(Len(planes), 2) THEN Panic
    ELSE LET take_planes == WrappingSub(Len(planes), 2) IN
         Planes(planes \o SetAngles(Take(Skip(Rev(planes), 1), take_planes), MirrorAbout180))

(***************************************************************************)
(* PhotometricWeb (photweb/photweb.rs)                                     *)
(***************************************************************************)
\* util::geom::angle_difference: acos of the cosine of the difference, the
\* unsigned distance around the circle, in 0..PI.
angle_difference(angle1, angle2) ==
    LET d == Abs(angle1 - angle2) % (2 * PI) IN
    IF d > PI THEN 2 * PI - d ELSE d

\* (iplane % count + count) % count, 0-based; Rust's % truncates toward zero:
\* for a < 0 the remainder is the residue of a less b, or 0
RustRem(a, b) == IF a >= 0 \/ a % b = 0 THEN a % b ELSE (a % b) - b
resolve_index(planes, iplane) ==
    LET count == Len(planes) IN
    planes[RustRem(RustRem(iplane, count) + count, count) + 1]

\* i32: `iplane - 1` and `iplane + 1` panic on overflow when the build checks
\* it and wrap modulo 2^32 when it does not.
I32Max == 2147483647
I32Min == -I32Max - 1
I32Dec(x) == IF x = I32Min THEN I32Max ELSE x - 1
I32Inc(x) == IF x = I32Max THEN I32Min ELSE x + 1

\* the pair get_adjacent_planes returns when it returns
get_adjacent_planes(planes, iplane) ==
    <<resolve_index(planes, I32Dec(iplane)), resolve_index(planes, I32Inc(iplane))>>

\* get_adjacent_planes panics: overflow of iplane - 1 or iplane + 1 under
\* overflow checks, or `% count` with no plane in the web
get_adjacent_planes_panics(planes, iplane, checks) ==
    \/ checks /\ (iplane = I32Min \/ iplane = I32Max)
    \/ Len(planes) = 0

is_spherically_symmetric(planes) == Len(planes) = 1

\* a delta_angle that averages the two distances whether or not they differ
delta_angle_averaging(planes, i) ==
    IF is_spherically_symmetric(planes) THEN Symmetric(2 * PI)
    ELSE LET curr_plane == planes[i + 1]
             adj == get_adjacent_planes(planes, i)
             lower == angle_difference(curr_plane.angle, adj[1].angle)
             upper == angle_difference(adj[2].angle, curr_plane.angle)
         IN  Symmetric((lower + upper) \div 2)

\* PhotometricWeb::delta_angle, i 0-based
delta_angle(planes, i) ==
    IF is_spherically_symmetric(planes) THEN Symmetric(2 * PI)
    ELSE LET curr_plane == planes[i + 1]
             adj == get_adjacent_planes(planes, i)
             lower == angle_difference(curr_plane.angle, adj[1].angle)
             upper == angle_difference(adj[2].angle, curr_plane.angle)
         IN  IF lower = upper THEN Symmetric((lower + upper) \div 2)
             ELSE Asymmetric(lower \div 2, upper \div 2)

\* PhotometricWeb::set_planes: the widths are computed one plane after the
\* other; delta_angle reads only the angles, which the loop leaves alone.
set_planes(planes) ==
    [i \in 1..Len(planes) |-> [planes[i] EXCEPT !.width = delta_angle(planes, i - 1)]]

(***************************************************************************)
(* Integration (photweb/plane.rs, photweb/photweb.rs).  A sine is kept as  *)
(* an integer count of 1/SinScale, so that an integral is an integer count *)
(* of (PI/360) / SinScale and a total intensity an integer count of        *)
(* (PI/360)^2 / SinScale.                                                  *)
(***************************************************************************)
SinScale == 10000

\* f64::sin of 0, 1, .., 180 degrees, times SinScale, rounded to the nearest
SinTable ==
    <<
      0, 175, 349, 523, 698, 872, 1045, 1219, 1392, 1564, 1736, 1908,
      2079, 2250, 2419, 2588, 2756, 2924, 3090, 3256, 3420, 3584, 3746, 3907,
      4067, 4226, 4384, 4540, 4695, 4848, 5000, 5150, 5299, 5446, 5592, 5736,
      5878, 6018, 6157, 6293, 6428, 6561, 6691, 6820, 6947, 7071, 7193, 7314,
      7431, 7547, 7660, 7771, 7880, 7986, 8090, 8192, 8290, 8387, 8480, 8572,
      8660, 8746, 8829, 8910, 8988, 9063, 9135, 9205, 9272, 9336, 9397, 9455,
      9511, 9563, 9613, 9659, 9703, 9744, 9781, 9816, 9848, 9877, 9903, 9925,
      9945, 9962, 9976, 9986, 9994, 9998, 10000, 9998, 9994, 9986, 9976, 9962,
      9945, 9925, 9903, 9877, 9848, 9816, 9781, 9744, 9703, 9659, 9613, 9563,
      9511, 9455, 9397, 9336, 9272, 9205, 9135, 9063, 8988, 8910, 8829, 8746,
      8660, 8572, 8480, 8387, 8290, 8192, 8090, 7986, 7880, 7771, 7660, 7547,
      7431, 7314, 7193, 7071, 6947, 6820, 6691, 6561, 6428, 6293, 6157, 6018,
      5878, 5736, 5592, 5446, 5299, 5150, 5000, 4848, 4695, 4540, 4384, 4226,
      4067, 3907, 3746, 3584, 3420, 3256, 3090, 2924, 2756, 2588, 2419, 2250,
      2079, 1908, 1736, 1564, 1392, 1219, 1045, 872, 698, 523, 349, 175,
      0 >>

\* f64::sin of an angle that is a whole number of degrees in 0..180
Sin(angle) == SinTable[angle \div 2 + 1]

\* the sum of f[lo] .. f[hi], by halves
RECURSIVE SumRange(_, _, _)
SumRange(f, lo, hi) ==
    IF lo > hi THEN 0
    ELSE IF lo = hi THEN f[lo]
    ELSE LET mid == (lo + hi) \div 2
             left == SumRange(f, lo, mid)
         IN  IF left = 0 THEN SumRange(f, mid + 1, hi)
             ELSE left + SumRange(f, mid + 1, hi)
SumSeq(f) == SumRange(f, 1, Len(f))

\* Plane::delta_angle, i 0-based
plane_delta_angle(plane, i) ==
    IF i = 0 THEN plane.angles[2] - plane.angles[1]
    ELSE IF i >= Len(plane.angles) - 1 THEN plane.angles[i + 1] - plane.angles[i]
    ELSE ((plane.angles[i + 1] - plane.angles[i])
          + (plane.angles[i + 2] - plane.angles[i + 1])) \div 2

\* Plane::integrate_intensity indexes angles out of bounds: sample 0 reads
\* angles[1], sample i reads angles[i]
integrate_intensity_panics(plane) ==
    /\ Len(plane.intensities) >= 1
    /\ (Len(plane.angles) < 2 \/ Len(plane.angles) < Len(plane.intensities))

\* the f64 that Plane::width holds for a PlaneWidth
WidthValue(width) ==
    CASE width.kind = "Symmetric" -> width.w
      [] width.kind = "Asymmetric" -> width.lower + width.upper
      [] OTHER -> 0

\* an integral that leaves the width of the plane out
integrate_intensity_without_width(plane) ==
    SumSeq([i \in 1..Len(plane.intensities) |->
               plane.intensities[i] * Sin(plane.angles[i]) * plane_delta_angle(plane, i - 1)])

\* Plane::integrate_intensity
integrate_intensity(plane) ==
    WidthValue(plane.width)
    * SumSeq([i \in 1..Len(plane.intensities) |->
                 plane.intensities[i] * Sin(plane.angles[i]) * plane_delta_angle(plane, i - 1)])

\* PhotometricWeb::total_intensity
total_intensity(planes) ==
    IF \E i \in 1..Len(planes) : integrate_intensity_panics(planes[i])
    THEN [panic |-> TRUE, v |-> 0]
    ELSE [panic |-> FALSE,
          v |-> SumSeq([i \in 1..Len(planes) |-> integrate_intensity(planes[i])])]

(***************************************************************************)
(* ops/mod.rs: average_photmetric_web_intensities.  A web is the sequence  *)
(* of its planes.  The result is a record: kind is "Ok" with the new web,  *)
(* the name of an ops::err::Error with its fields, or "Panic".             *)
(***************************************************************************)
AvgOk(planes) == [kind |-> "Ok", expect |-> 0, found |-> 0, idx |-> 0, web |-> planes]
AvgErr(kind, expect, found, idx) ==
    [kind |-> kind, expect |-> expect, found |-> found, idx |-> idx, web |-> <<>>]
AvgPanic == AvgErr("Panic", 0, 0, 0)

\* input_webs.iter().map(|web| web.n_planes()).collect()
n_planes_vec(input_webs) == [w \in 1..Len(input_webs) |-> Len(input_webs[w])]

\* iter().min() != iter().max()
MinDiffersFromMax(vec) == \E i, j \in 1..Len(vec) : vec[i] # vec[j]

\* windows(2).position(|vals| vals[0] != vals[1]).unwrap(), 0-based
FirstWindowDiffering(vec) ==
    (CHOOSE i \in 1..(Len(vec) - 1) :
        /\ vec[i] # vec[i + 1]
        /\ \A j \in 1..(i - 1) : vec[j] = vec[j + 1]) - 1

\* a mismatch error that names the window, not the web after it
InconsistentNumberOfPlanesAtWindow(vec) ==
    LET idx == FirstWindowDiffering(vec) IN
    AvgErr("InconsistentNumberOfPlanes", vec[1], vec[idx + 1], idx)

\* Error::InconsistentNumberOfPlanes(n_planes_vec[0], n_planes_vec[idx + 1], idx + 1)
InconsistentNumberOfPlanes(vec) ==
    LET idx == FirstWindowDiffering(vec) IN
    AvgErr("InconsistentNumberOfPlanes", vec[1], vec[idx + 2], idx + 1)

\* the check of the secondary angles of every plane of every web
AnglesDiffer(input_webs, angles) ==
    \E w \in 1..Len(input_webs) : \E p \in 1..Len(input_webs[w]) :
        input_webs[w][p].angles # angles

\* intensities()[idx] reads past the end of a plane with fewer intensities
\* than the first plane has angles
IntensityIndexOutOfBounds(input_webs, n_planes, angles) ==
    \E w \in 1..Len(input_webs) : \E p \in 1..n_planes :
        Len(input_webs[w][p].intensities) < Len(angles)

\* intensities that are the sum over the webs, not divided
summed_intensities(input_webs, i_plane, angles) ==
    [idx \in 1..Len(angles) |->
        SumSeq([w \in 1..Len(input_webs) |-> input_webs[w][i_plane].intensities[idx]])]

\* average_intensities of plane i_plane (1-based): the sum over the webs
\* divided by n_samples, an f64 division
average_intensities(input_webs, i_plane, angles) ==
    [idx \in 1..Len(angles) |->
        SumSeq([w \in 1..Len(input_webs) |-> input_webs[w][i_plane].intensities[idx]])
            \div Len(input_webs)]

\* an averaging that checks the secondary angles before the plane counts
average_checking_angles_first(input_webs) ==
    LET vec == n_planes_vec(input_webs) IN
    IF Len(vec) = 0 THEN AvgErr("NoPlanes", 0, 0, 0)
    ELSE IF vec[1] = 0 THEN AvgPanic
    ELSE IF AnglesDiffer(input_webs, input_webs[1][1].angles)
         THEN AvgErr("InconsistentPlaneAngles", 0, 0, 0)
    ELSE IF MinDiffersFromMax(vec) THEN InconsistentNumberOfPlanes(vec)
    ELSE IF IntensityIndexOutOfBounds(input_webs, vec[1], input_webs[1][1].angles)
         THEN AvgPanic
    ELSE AvgOk(set_planes(
             [i_plane \in 1..vec[1] |->
                 NewPlane(input_webs[1][i_plane].angle, input_webs[1][1].angles,
                          average_intensities(input_webs, i_plane,
                                              input_webs[1][1].angles))]))

\* average_photmetric_web_intensities
average_photmetric_web_intensities(input_webs) ==
    LET vec == n_planes_vec(input_webs) IN
    IF Len(vec) = 0 THEN AvgErr("NoPlanes", 0, 0, 0)
    ELSE IF MinDiffersFromMax(vec) THEN InconsistentNumberOfPlanes(vec)
    ELSE LET n_planes == vec[1] IN
         IF n_planes = 0 THEN AvgPanic                     \* planes()[0]
         ELSE LET angles == input_webs[1][1].angles IN
              IF AnglesDiffer(input_webs, angles)
              THEN AvgErr("InconsistentPlaneAngles", 0, 0, 0)
              ELSE IF IntensityIndexOutOfBounds(input_webs, n_planes, angles)
              THEN AvgPanic
              ELSE AvgOk(set_planes(
                       [i_plane \in 1..n_planes |->
                           NewPlane(input_webs[1][i_plane].angle, angles,
                                    average_intensities(input_webs, i_plane, angles))]))

(***************************************************************************)
(* IesFile::get_planes                                                     *)
(***************************************************************************)
get_planes_type_c(doc, checks) ==
    IF doc.n_vertical_angles = 0 THEN Panic               \* chunks(0)
    ELSE LET chunks == Chunks(doc.candela_values, doc.n_vertical_angles) IN
         IF Len(chunks) > Len(doc.horizontal_angles) THEN Panic  \* horizontal_angles[iplane]
         ELSE IF Len(chunks) = 0 THEN Panic                \* last().unwrap()
         ELSE LET planes == [i \in 1..Len(chunks) |->
                                NewPlane(degrees_to_radians(doc.horizontal_angles[i]),
                                         AnglesToRadians(doc.vertical_angles),
                                         chunks[i])]
                  quad == IF Abs(planes[Len(planes)].angle - PI \div 2) <= 0
                          THEN mirror_first_quadrant(planes) ELSE planes
              IN  IF Abs(quad[Len(quad)].angle - PI) <= 0
                  THEN mirror_first_hemisphere(quad, checks)
                  ELSE Planes(quad)

IesGetPlanes(doc, checks) ==
    CASE doc.photometric_type = "TypeA" -> Panic    \* get_planes_type_a: todo!()
      [] doc.photometric_type = "TypeB" -> Panic    \* get_planes_type_b: todo!()
      [] OTHER -> get_planes_type_c(doc, checks)

(***************************************************************************)
(* EulumdatFile (io/eulumdat/eulumdat_file.rs).  A line of a EULUMDAT text *)
(* is one token: a number or a text that parses as no number.              *)
(***************************************************************************)
LAMP_SECTION_START == 27
N_LAMP_PARAMS == 6

\* EulumdatFile::new(): every field at its Default
EulumdatFileNew ==
    [header |-> BadTok,
     ltype |-> "PointSourceWithSymmetryAboutVerticalAxis",
     symmetry |-> "NoSymmetry",
     n_cplanes |-> 0,
     cplane_dist |-> 0,
     n_luminous_intensities_per_cplane |-> 0,
     distance_between_luminous_intensities_per_cplane |-> 0,
     measurement_report_number |-> BadTok,
     luminaire_name |-> BadTok,
     luminaire_number |-> BadTok,
     filename |-> BadTok,
     date_user |-> BadTok,
     luminaire_length |-> 0,
     luminaire_width |-> 0,
     luminaire_height |-> 0,
     luminous_area_length |-> 0,
     luminous_area_width |-> 0,
     luminous_area_height_c0 |-> 0,
     luminous_area_height_c90 |-> 0,
     luminous_area_height_c180 |-> 0,
     luminous_area_height_c270 |-> 0,
     downward_flux_fraction |-> 0,
     light_output_ratio_luminaire |-> 0,
     luminous_intensity_conversion_factor |-> 0,
     tilt |-> 0,
     n_lamp_sets |-> 0,
     n_lamp |-> <<>>,
     lamp_type |-> <<>>,
     tot_luminous_flux |-> <<>>,
     color_temperature |-> <<>>,
     color_rendering_group |-> <<>>,
     wattage |-> <<>>,
     direct_ratios |-> <<>>,
     c_angles |-> <<>>,
     g_angles |-> <<>>,
     intensities |-> <<>>]

\* EulumdatType::try_from and EulumdatSymmetry::try_from
EulumdatTypeFrom(val) ==
    CASE val = 1 -> "PointSourceWithSymmetryAboutVerticalAxis"
      [] val = 2 -> "LinearLumminaire"
      [] val = 3 -> "PointSourceWithOtherSymmetry"
      [] OTHER -> "Invalid"

EulumdatSymmetryFrom(val) ==
    CASE val = 0 -> "NoSymmetry"
      [] val = 1 -> "AboutVerticalAxis"
      [] val = 2 -> "C0C180Plane"
      [] val = 3 -> "C90C270Plane"
      [] val = 4 -> "C0C180C90C270Plane"
      [] OTHER -> "Invalid"

\* the field a fixed line 1..26 is stored in
LdtFixedField ==
    <<"header", "ltype", "symmetry", "n_cplanes", "cplane_dist",
      "n_luminous_intensities_per_cplane",
      "distance_between_luminous_intensities_per_cplane",
      "measurement_report_number", "luminaire_name", "luminaire_number",
      "filename", "date_user", "luminaire_length", "luminaire_width",
      "luminaire_height", "luminous_area_length", "luminous_area_width",
      "luminous_area_height_c0", "luminous_area_height_c90",
      "luminous_area_height_c180", "luminous_area_height_c270",
      "downward_flux_fraction", "light_output_ratio_luminaire",
      "luminous_intensity_conversion_factor", "tilt", "n_lamp_sets">>

LdtOk(doc) == [doc |-> doc, err |-> <<>>]
LdtFail(doc, kind, iline) == [doc |-> doc, err |-> <<Err(kind, iline, 0, 0, 0)>>]

\* self.field = line.to_owned()
LdtSetText(doc, field, line) == LdtOk([doc EXCEPT ![field] = line])
\* self.field = util::parse_u32(iline, line)? as usize
LdtSetU32(doc, field, iline, line) ==
    IF ParsesUsize(line) THEN LdtOk([doc EXCEPT ![field] = line.v])
    ELSE LdtFail(doc, "ParseIntError", iline)
\* self.field = util::parse_f64(iline, line)?
LdtSetF64(doc, field, iline, line) ==
    IF ParsesFloat(line) THEN LdtOk([doc EXCEPT ![field] = line.v])
    ELSE LdtFail(doc, "ParseFloatError", iline)
\* self.field.push(util::parse_f64(iline, line)?)
LdtPushF64(doc, field, iline, line) ==
    IF ParsesFloat(line) THEN LdtOk([doc EXCEPT ![field] = Append(doc[field], line.v)])
    ELSE LdtFail(doc, "ParseFloatError", iline)
\* self.field.push(util::parse_i32(iline, line)?)
LdtPushI32(doc, field, iline, line) ==
    IF line.ok THEN LdtOk([doc EXCEPT ![field] = Append(doc[field], line.v)])
    ELSE LdtFail(doc, "ParseIntError", iline)
\* self.field.push(line.to_owned())
LdtPushText(doc, field, line) == LdtOk([doc EXCEPT ![field] = Append(doc[field], line)])

\* lamp sections of one line each, whatever n_lamp_sets is
lamp_section_of_one_set(doc, iline, isect) ==
    /\ iline >= LAMP_SECTION_START + isect
    /\ iline < LAMP_SECTION_START + isect + 1

lamp_section(doc, iline, isect) ==
    /\ iline >= LAMP_SECTION_START + isect * doc.n_lamp_sets
    /\ iline < LAMP_SECTION_START + (isect + 1) * doc.n_lamp_sets

is_direct_ratios(doc, iline) ==
    /\ iline >= LAMP_SECTION_START + N_LAMP_PARAMS * doc.n_lamp_sets
    /\ iline < LAMP_SECTION_START + N_LAMP_PARAMS * doc.n_lamp_sets + 10

is_c_angles(doc, iline) ==
    /\ iline >= LAMP_SECTION_START + N_LAMP_PARAMS * doc.n_lamp_sets + 10
    /\ iline < LAMP_SECTION_START + N_LAMP_PARAMS * doc.n_lamp_sets + 10 + doc.n_cplanes

is_g_angles(doc, iline) ==
    /\ iline >= LAMP_SECTION_START + N_LAMP_PARAMS * doc.n_lamp_sets + 10 + doc.n_cplanes
    /\ iline < LAMP_SECTION_START + N_LAMP_PARAMS * doc.n_lamp_sets + 10 + doc.n_cplanes
                 + doc.n_luminous_intensities_per_cplane

is_luminous_intensities(doc, iline) ==
    iline >= LAMP_SECTION_START + N_LAMP_PARAMS * doc.n_lamp_sets + 10 + doc.n_cplanes
               + doc.n_luminous_intensities_per_cplane

\* EulumdatFile::process_line, iline 1-based
process_line(doc, iline, line) ==
    CASE iline = 1 -> LdtSetText(doc, "header", line)
      [] iline = 2 ->
           IF ParsesUsize(line)
           THEN IF EulumdatTypeFrom(line.v) # "Invalid"
                THEN LdtOk([doc EXCEPT !.ltype = EulumdatTypeFrom(line.v)])
                ELSE LdtFail(doc, "FromPrimitiveError", iline)
           ELSE LdtFail(doc, "ParseIntError", iline)
      [] iline = 3 ->
           IF ParsesUsize(line)
           THEN IF EulumdatSymmetryFrom(line.v) # "Invalid"
                THEN LdtOk([doc EXCEPT !.symmetry = EulumdatSymmetryFrom(line.v)])
                ELSE LdtFail(doc, "FromPrimitiveError", iline)
           ELSE LdtFail(doc, "ParseIntError", iline)
      [] iline \in {4, 6, 26} -> LdtSetU32(doc, LdtFixedField[iline], iline, line)
      [] iline \in {5, 7} \cup (13..25) -> LdtSetF64(doc, LdtFixedField[iline], iline, line)
      [] iline \in 8..12 -> LdtSetText(doc, LdtFixedField[iline], line)
      [] OTHER ->
           IF lamp_section(doc, iline, 0) THEN LdtPushI32(doc, "n_lamp", iline, line)
           ELSE IF lamp_section(doc, iline, 1) THEN LdtPushText(doc, "lamp_type", line)
           ELSE IF lamp_section(doc, iline, 2)
                THEN LdtPushF64(doc, "tot_luminous_flux", iline, line)
           ELSE IF lamp_section(doc, iline, 3) THEN LdtPushText(doc, "color_temperature", line)
           ELSE IF lamp_section(doc, iline, 4)
                THEN LdtPushText(doc, "color_rendering_group", line)
           ELSE IF lamp_section(doc, iline, 5) THEN LdtPushF64(doc, "wattage", iline, line)
           ELSE IF is_direct_ratios(doc, iline) THEN LdtPushF64(doc, "direct_ratios", iline, line)
           ELSE IF is_c_angles(doc, iline) THEN LdtPushF64(doc, "c_angles", iline, line)
           ELSE IF is_g_angles(doc, iline) THEN LdtPushF64(doc, "g_angles", iline, line)
           ELSE IF is_luminous_intensities(doc, iline)
                THEN LdtPushF64(doc, "intensities", iline, line)
           ELSE LdtFail(doc, "TooManyLines", iline)

\* lines.iter().map(|(iline, line)| self.process_line(iline, line)): every
\* line is processed, in order; a line that returns Ok(()) adds nothing to
\* the collected errors.
RECURSIVE ProcessLines(_, _, _, _)
ProcessLines(doc, lines, iline, errs) ==
    IF iline > Len(lines) THEN [doc |-> doc, errs |-> errs]
    ELSE LET r == process_line(doc, iline, lines[iline]) IN
         IF r.err = <<>> THEN ProcessLines(r.doc, lines, iline + 1, errs)
         ELSE ProcessLines(r.doc, lines, iline + 1, errs \o r.err)

\* EulumdatFile::parse
LdtParse(doc, lines) ==
    LET r == ProcessLines(doc, lines, 1, <<>>) IN
    IF r.errs # <<>> THEN [doc |-> r.doc, res |-> r.errs[1]]
    ELSE [doc |-> r.doc, res |-> OkRes]

mc1(doc) ==
    CASE doc.symmetry = "C90C270Plane" -> 3 * (doc.n_cplanes \div 4) + 1
      [] OTHER -> 1

mc2(doc) ==
    CASE doc.symmetry = "NoSymmetry" -> doc.n_cplanes
      [] doc.symmetry = "AboutVerticalAxis" -> 1
      [] doc.symmetry = "C0C180Plane" -> doc.n_cplanes \div 2 + 1
      [] doc.symmetry = "C90C270Plane" -> mc1(doc) + doc.n_cplanes \div 2
      [] OTHER -> doc.n_cplanes \div 4 + 1

(***************************************************************************)
(* impl ToString for EulumdatFile.  One value per line; a number is        *)
(* written by to_string() and read back as the same number, an enum is     *)
(* written as its discriminant, a text is written as it is held.           *)
(***************************************************************************)
EulumdatTypeCode(t) ==
    CASE t = "PointSourceWithSymmetryAboutVerticalAxis" -> 1
      [] t = "LinearLumminaire" -> 2
      [] OTHER -> 3

EulumdatSymmetryCode(sym) ==
    CASE sym = "NoSymmetry" -> 0
      [] sym = "AboutVerticalAxis" -> 1
      [] sym = "C0C180Plane" -> 2
      [] sym = "C90C270Plane" -> 3
      [] OTHER -> 4

\* the fixed lines 4..26 that hold a text
LdtTextLines == 8..12

\* EulumdatFile::n_file_lines: mc2() - mc1() + 1 in usize; mc2() < mc1()
\* panics with overflow checks and wraps without them (usize::MAX + 1 = 0
\* when mc2() is one below mc1())
n_file_lines(doc, checks) ==
    LET fixed == LAMP_SECTION_START + N_LAMP_PARAMS * doc.n_lamp_sets + 10
                 + doc.n_cplanes + doc.n_luminous_intensities_per_cplane
        stored == IF SubOverflows(mc2(doc), mc1(doc))
                  THEN (IF mc2(doc) + 1 = mc1(doc) THEN 0 ELSE Huge)
                  ELSE mc2(doc) - mc1(doc) + 1
    IN  [panic |-> checks /\ SubOverflows(mc2(doc), mc1(doc)),
         v |-> fixed + stored * doc.n_luminous_intensities_per_cplane]

\* self.field[index].to_string() or .clone(), index 0-based: a panic when
\* the array is too short
LdtWriteItem(arr, index, text) ==
    IF index >= Len(arr) THEN [panic |-> TRUE, line |-> BadTok]
    ELSE [panic |-> FALSE, line |-> IF text THEN arr[index + 1] ELSE Tok(arr[index + 1])]

\* i_lamp_section
i_lamp_section(doc, iline, isect) == iline - (LAMP_SECTION_START + isect * doc.n_lamp_sets)

\* the match on iline in to_string
LdtWriteLine(doc, iline) ==
    LET plain(line) == [panic |-> FALSE, line |-> line]
        after_lamps == LAMP_SECTION_START + N_LAMP_PARAMS * doc.n_lamp_sets
    IN
    CASE iline = 1 -> plain(doc.header)
      [] iline = 2 -> plain(Tok(EulumdatTypeCode(doc.ltype)))
      [] iline = 3 -> plain(Tok(EulumdatSymmetryCode(doc.symmetry)))
      [] iline \in LdtTextLines -> plain(doc[LdtFixedField[iline]])
      [] iline \in (4..26) \ LdtTextLines -> plain(Tok(doc[LdtFixedField[iline]]))
      [] OTHER ->
           IF lamp_section(doc, iline, 0)
           THEN LdtWriteItem(doc.n_lamp, i_lamp_section(doc, iline, 0), FALSE)
           ELSE IF lamp_section(doc, iline, 1)
           THEN LdtWriteItem(doc.lamp_type, i_lamp_section(doc, iline, 1), TRUE)
           ELSE IF lamp_section(doc, iline, 2)
           THEN LdtWriteItem(doc.tot_luminous_flux, i_lamp_section(doc, iline, 2), FALSE)
           ELSE IF lamp_section(doc, iline, 3)
           THEN LdtWriteItem(doc.color_temperature, i_lamp_section(doc, iline, 3), TRUE)
           ELSE IF lamp_section(doc, iline, 4)
           THEN LdtWriteItem(doc.color_rendering_group, i_lamp_section(doc, iline, 4), TRUE)
           ELSE IF lamp_section(doc, iline, 5)
           THEN LdtWriteItem(doc.wattage, i_lamp_section(doc, iline, 5), FALSE)
           ELSE IF is_direct_ratios(doc, iline)
           THEN LdtWriteItem(doc.direct_ratios, iline - after_lamps, FALSE)
           ELSE IF is_c_angles(doc, iline)
           THEN LdtWriteItem(doc.c_angles, iline - (after_lamps + 10), FALSE)
           ELSE IF is_g_angles(doc, iline)
           THEN LdtWriteItem(doc.g_angles, iline - (after_lamps + 10 + doc.n_cplanes), FALSE)
           ELSE IF is_luminous_intensities(doc, iline)
           THEN LdtWriteItem(doc.intensities,
                             iline - (after_lamps + 10 + doc.n_cplanes
                                      + doc.n_luminous_intensities_per_cplane), FALSE)
           ELSE plain(BadTok)

\* EulumdatFile::to_string: the lines 1..n_file_lines() - 1
EulumdatToString(doc, checks) ==
    LET n == n_file_lines(doc, checks) IN
    IF n.panic THEN [panic |-> TRUE, text |-> <<>>]
    ELSE LET written == [iline \in 1..(n.v - 1) |-> LdtWriteLine(doc, iline)] IN
         IF \E iline \in 1..(n.v - 1) : written[iline].panic
         THEN [panic |-> TRUE, text |-> <<>>]
         ELSE [panic |-> FALSE, text |-> [iline \in 1..(n.v - 1) |-> written[iline].line]]

(***************************************************************************)
(* EulumdatFile::get_planes                                                *)
(***************************************************************************)
MirrorAbout270(a) == a + 2 * (3 * FRAC_PI_2 - a)
MirrorTo90(a) == PI - a

\* intensities.chunks(Ng).zip(c_angles.iter()): one plane per chunk, as long
\* as there are C-angles
StoredPlanes(doc) ==
    LET chunks == Chunks(doc.intensities, doc.n_luminous_intensities_per_cplane)
        n == Min(Len(chunks), Len(doc.c_angles))
    IN  [i \in 1..n |-> NewPlane(degrees_to_radians(doc.c_angles[i]),
                                 AnglesToRadians(doc.g_angles),
                                 chunks[i])]

\* A quadrant mirror that forgets skip(1): the plane at 90 degrees is copied too.
LdtFillQuadrantKeepingBoundary(planes) ==
    planes \o SetAngles(Rev(planes), MirrorAbout90)

\* the block for C0C180C90C270Plane: mirror about 90 degrees
LdtFillQuadrant(planes) ==
    planes \o SetAngles(Skip(Rev(planes), 1), MirrorAbout90)

\* A hemisphere mirror that forgets skip(1): it starts at the plane at 180
\* degrees instead of the one before it.
LdtFillHemisphereKeepingBoundary(planes, checks) ==
    IF checks /\ SubOverflows(Len(planes), 2) THEN Panic
    ELSE LET take_planes == WrappingSub(Len(planes), 2) IN
         Planes(planes \o SetAngles(Take(Rev(planes), take_planes), MirrorAbout180))

\* the block for C0C180Plane and C0C180C90C270Plane: mirror about 180 degrees
LdtFillHemisphere(planes, checks) ==
    IF checks /\ SubOverflows(Len(planes), 2) THEN Panic
    ELSE LET take_planes == WrappingSub(Len(planes), 2) IN
         Planes(planes \o SetAngles(Take(Skip(Rev(planes), 1), take_planes), MirrorAbout180))

\* A C90-C270 fill that reflects the planes beyond 180 degrees about 90
\* degrees as well, instead of about 270.
LdtFillC90C270OneAxis(planes, checks) ==
    LET half == Len(planes) \div 2 IN
    IF checks /\ SubOverflows(half, 1) THEN Panic
    ELSE Planes(SetAngles(Rev(Take(Skip(planes, 1), half)), MirrorTo90)
                \o planes
                \o SetAngles(Rev(Take(Skip(planes, half + 1), WrappingSub(half, 1))),
                             MirrorTo90))

\* the block for C90C270Plane
LdtFillC90C270(planes, checks) ==
    LET half == Len(planes) \div 2 IN
    IF checks /\ SubOverflows(half, 1) THEN Panic
    ELSE Planes(SetAngles(Rev(Take(Skip(planes, 1), half)), MirrorTo90)
                \o planes
                \o SetAngles(Rev(Take(Skip(planes, half + 1), WrappingSub(half, 1))),
                             MirrorAbout270))

LdtGetPlanes(doc, checks) ==
    IF doc.n_luminous_intensities_per_cplane = 0 THEN Panic     \* chunks(0)
    ELSE LET planes == StoredPlanes(doc)
             quad == IF doc.symmetry = "C0C180C90C270Plane"
                     THEN LdtFillQuadrant(planes) ELSE planes
         IN  IF doc.symmetry \in {"C0C180Plane", "C0C180C90C270Plane"}
             THEN LdtFillHemisphere(quad, checks)
             ELSE IF doc.symmetry = "C90C270Plane"
             THEN LdtFillC90C270(quad, checks)
             ELSE Planes(quad)

(***************************************************************************)
(* PhotometricWebBuilder (photweb/photweb_builder.rs).  A path is the      *)
(* sequence of the parts of its file name between the dots: "a.ies" is     *)
(* <<"a", "ies">>, ".ies" is <<"", "ies">>, "a." is <<"a", "">>.  A file   *)
(* is [exists, kind, text]: the text is read as IES or EULUMDAT text by    *)
(* the parser that opens it, whatever the file was written as.             *)
(***************************************************************************)
None == [some |-> FALSE, v |-> ""]
Some(v) == [some |-> TRUE, v |-> v]

\* Path::extension: the part after the last dot of the file name; None when
\* there is no dot or when the only dot starts the name
Extension(path) ==
    IF Len(path) < 2 THEN None
    ELSE IF Len(path) = 2 /\ path[1] = "" THEN None
    ELSE Some(path[Len(path)])

\* The lines of a file as each parser reads them.  A line of a EULUMDAT text
\* is a line of one token to the IES parser; a line of an IES text is a
\* number to the EULUMDAT parser when it holds one numeric token, a text
\* otherwise.
LinesAsIes(file) ==
    IF file.kind = "ldt" THEN [i \in 1..Len(file.text) |-> NumLine(<<file.text[i]>>)]
    ELSE file.text
LinesAsEulumdat(file) ==
    IF file.kind = "ies"
    THEN [i \in 1..Len(file.text) |->
            IF file.text[i].k = "num" /\ Len(file.text[i].toks) = 1
            THEN file.text[i].toks[1] ELSE BadTok]
    ELSE file.text

BuildResult(kind, ext, parser, err, planes) ==
    [kind |-> kind, ext |-> ext, parser |-> parser, err |-> err, web |-> planes]

\* <IesFile as PhotometricWebReader>::read: parse_file, then into()
IesRead(file, checks) ==
    IF ~file.exists THEN BuildResult("IOError", "", "ies", NotRun, <<>>)
    ELSE LET into(g) ==
                 IF g.panic THEN BuildResult("Panic", "", "ies", NotRun, <<>>)
                 ELSE BuildResult("Ok", "", "ies", OkRes, set_planes(g.planes))
             read(r) ==
                 IF ~IsOk(r.res) THEN BuildResult("IESError", "", "ies", r.res, <<>>)
                 ELSE into(IesGetPlanes(r.doc, checks))
         IN  read(IesParse(IesFileNew, LinesAsIes(file)))

\* <EulumdatFile as PhotometricWebReader>::read
EulumdatRead(file, checks) ==
    IF ~file.exists THEN BuildResult("IOError", "", "eulumdat", NotRun, <<>>)
    ELSE LET r == LdtParse(EulumdatFileNew, LinesAsEulumdat(file)) IN
         IF ~IsOk(r.res) THEN BuildResult("LDTError", "", "eulumdat", r.res, <<>>)
         ELSE LET g == LdtGetPlanes(r.doc, checks) IN
              IF g.panic THEN BuildResult("Panic", "", "eulumdat", NotRun, <<>>)
              ELSE BuildResult("Ok", "", "eulumdat", OkRes, set_planes(g.planes))

\* a parser selection that knows "ldt" and "ies" only
get_file_parser_without_eul(path) ==
    LET ext == Extension(path) IN
    IF ~ext.some THEN "none"
    ELSE CASE ext.v = "ldt" -> "eulumdat"
           [] ext.v = "ies" -> "ies"
           [] OTHER -> "none"

\* PhotometricWebBuilder::get_file_parser: the reader, "none" for the Err
get_file_parser(path) ==
    LET ext == Extension(path) IN
    IF ~ext.some THEN "none"
    ELSE CASE ext.v = "ldt" -> "eulumdat"
           [] ext.v = "eul" -> "eulumdat"
           [] ext.v = "ies" -> "ies"
           [] OTHER -> "none"

\* PhotometricWebBuilder::from_file(path).build()
build_from_file(path, file, checks) ==
    LET rdr == get_file_parser(path) IN
    CASE rdr = "ies" -> IesRead(file, checks)
      [] rdr = "eulumdat" -> EulumdatRead(file, checks)
      [] OTHER -> BuildResult("InvalidFileType", Extension(path).v, "none", NotRun, <<>>)

(***************************************************************************)
(* The texts handed to the parsers.                                        *)
(***************************************************************************)
\* The lines of an IES text before the numeric block.
IesHeads ==
    { <<StdLine("IESNA91"), KwLine("TEST", <<"a">>), KwLine("MORE", <<"b">>),
        TiltLine("NONE")>>,
      <<TiltLine("NONE")>>,
      <<StdLine("IESNA:LM-63-2002"), KwLine("TEST", <<"a">>), TiltLine("INCLUDE"),
        NumLine(Toks(<<1>>)), NumLine(Toks(<<2>>)), NumLine(Toks(<<0, 90>>)),
        NumLine(Toks(<<1, 1>>))>> }
PlainHead == <<StdLine("IESNA91"), KwLine("TEST", <<"a">>), TiltLine("NONE")>>

\* head and photometric-type code of a text
IesHeadAndType ==
    {<<h, 1>> : h \in IesHeads} \cup {<<PlainHead, t>> : t \in 1..4}

\* the vertical-angle and horizontal-angle lines a text may hold
VerticalLines == {<<0, 90>>, <<90, 0>>, <<0>>, <<0, 45, 90>>}
HorizontalLines ==
    {<<0>>, <<0, 90>>, <<0, 180>>, <<0, 45, 90>>, <<0, 90, 180>>, <<0, 45>>,
     <<180>>, <<0, 90, 180, 270>>, <<0, 180, 360>>}

\* candela line c (1-based) of width w: the values 100*c + 1 .. 100*c + w
CandelaLine(c, w) == NumLine(Toks([j \in 1..w |-> 100 * c + j]))
DropLastToken(line) == NumLine(SubSeq(line.toks, 1, Len(line.toks) - 1))

CandelaLines(cn, w, short) ==
    LET full == [c \in 1..cn |-> CandelaLine(c, w)] IN
    IF ~short \/ cn = 0 THEN full
    ELSE IF w = 1 THEN SubSeq(full, 1, cn - 1)
    ELSE [full EXCEPT ![cn] = DropLastToken(full[cn])]

\* The numeric block: the two scalar lines, one line of vertical angles, one
\* line of horizontal angles, cn candela lines.
IesNumericBlock(nv, nh, ptype, vs, hs, cn, short) ==
    <<NumLine(Toks(<<1, -1, 1, nv, nh, ptype, 2, 0, 0, 0>>)),
      NumLine(Toks(<<1, 1, 0>>)),
      NumLine(Toks(vs)),
      NumLine(Toks(hs))>>
    \o CandelaLines(cn, IF nv = 0 THEN 1 ELSE nv, short)

\* Texts with one faulty line: a line that is no keyword line before the
\* TILT line, with and without a standard line; a token that is no number
\* in the TILT=INCLUDE sub-table; a token that is no number in the numeric
\* block.
NotAKeywordLine == NumLine(Toks(<<7>>))
IesFaultyHeads ==
    { <<StdLine("IESNA91"), KwLine("TEST", <<"a">>), NotAKeywordLine, TiltLine("NONE")>>,
      <<StdLine("IESNA:LM-63-1995"), NotAKeywordLine, TiltLine("NONE")>>,
      <<KwLine("TEST", <<"a">>), NotAKeywordLine, TiltLine("NONE")>>,
      <<StdLine("IESNA:LM-63-2002"), KwLine("TEST", <<"a">>), TiltLine("INCLUDE"),
        NumLine(Toks(<<1>>)), NumLine(Toks(<<2>>)), NumLine(<<Tok(0), BadTok>>),
        NumLine(Toks(<<1, 1>>))>>,
      <<KwLine("TEST", <<"a">>), TiltLine("INCLUDE"),
        NumLine(Toks(<<1>>)), NumLine(<<BadTok>>), NumLine(Toks(<<0, 90>>)),
        NumLine(Toks(<<1, 1>>))>> }

IesFaultyBlocks ==
    { <<NumLine(Toks(<<1, -1, 1, 2, 1, 1, 2, 0, 0, 0>>)), NumLine(Toks(<<1, 1, 0>>)),
        NumLine(<<Tok(0), BadTok>>), NumLine(Toks(<<0>>)), CandelaLine(1, 2)>>,
      <<NumLine(Toks(<<1, -1, 1, 2, 1, 1, 2, 0, 0, 0>>)), NumLine(<<Tok(1), BadTok, Tok(0)>>),
        NumLine(Toks(<<0, 90>>)), NumLine(Toks(<<0>>)), CandelaLine(1, 2)>>,
      <<NumLine(Toks(<<1, -1, 1, 2, 1, 1, 2, 0, 0, 0>>)), NumLine(Toks(<<1, 1, 0>>)),
        NumLine(Toks(<<0, 90>>)), NumLine(Toks(<<0>>)),
        NumLine(<<Tok(101), BadTok>>)>> }

IesFaultyTexts ==
    { h \o IesNumericBlock(2, 1, 1, <<0, 90>>, <<0>>, 1, FALSE) : h \in IesFaultyHeads }
    \cup { h \o b : h \in IesHeads, b \in IesFaultyBlocks }

\* Keyword blocks with [MORE] lines: after a keyword, twice in a row, after
\* a keyword that is given twice, as the last line, and as the first line,
\* with and without a standard line.
IesMoreHeads ==
    { <<StdLine("IESNA91"), KwLine("TEST", <<"a">>), KwLine("MORE", <<"b">>),
        KwLine("MORE", <<"c">>), KwLine("OTHER", <<"d">>), TiltLine("NONE")>>,
      <<KwLine("TEST", <<"a">>), KwLine("OTHER", <<"d">>), KwLine("MORE", <<"b">>),
        TiltLine("NONE")>>,
      <<StdLine("IESNA:LM-63-1995"), KwLine("TEST", <<"a">>), KwLine("MORE", <<"b">>),
        KwLine("OTHER", <<"d">>), KwLine("TEST", <<"e">>), KwLine("MORE", <<"c">>),
        TiltLine("NONE")>>,
      <<StdLine("IESNA91"), KwLine("MORE", <<"b">>), KwLine("TEST", <<"a">>),
        TiltLine("NONE")>>,
      <<KwLine("MORE", <<"b">>), TiltLine("NONE")>> }

IesMoreTexts ==
    { h \o IesNumericBlock(2, 1, 1, <<0, 90>>, <<0>>, 1, FALSE) : h \in IesMoreHeads }

\* Every numeric block under the plain head as Type C; every head and every
\* photometric-type code over the blocks of two vertical angles.
IesTexts ==
    { PlainHead \o IesNumericBlock(nv, nh, 1, vs, hs, cn, short) :
        nv \in 0..MaxV, nh \in 0..MaxH,
        vs \in VerticalLines, hs \in HorizontalLines,
        cn \in 0..MaxCandLines, short \in BOOLEAN }
    \cup
    { ht[1] \o IesNumericBlock(MaxV, nh, ht[2], <<0, 90>>, hs, cn, FALSE) :
        ht \in IesHeadAndType, nh \in 1..MaxH, hs \in {<<0>>, <<0, 90>>, <<0, 90, 180>>},
        cn \in 1..MaxCandLines }
    \cup IesFaultyTexts
    \cup IesMoreTexts

\* 0-based index of the first line of the numeric block of a text of IesTexts
NumericStart(text) ==
    TiltPosition(text) + (IF text[TiltPosition(text) + 1].s = "INCLUDE" THEN 5 ELSE 1)

\* A EULUMDAT text: the 26 fixed lines, then the lamp arrays, the direct
\* ratios, the C-angles start, start+step, .., the G-angles 0, 90, .. and
\* the intensities 1, 2, ..; `extra` intensity lines follow the G-angles, a
\* negative `extra` cuts the text short.
LdtFixedLines(sym, mc, step, ng, n) ==
    <<BadTok, Tok(1), Tok(sym), Tok(mc), Tok(step), Tok(ng), Tok(90)>>
    \o [i \in 1..5 |-> BadTok]
    \o [i \in 1..13 |-> Tok(0)]
    \o <<Tok(n)>>

\* a line that holds a text, one text per k
TextLine(k) == [ok |-> FALSE, v |-> k]

\* the six lamp arrays, every line of them unlike the others
LdtLampLines(n) ==
    [i \in 1..n |-> Tok(i)] \o [i \in 1..n |-> TextLine(10 + i)]
    \o [i \in 1..n |-> Tok(100 + i)]
    \o [i \in 1..n |-> TextLine(30 + i)] \o [i \in 1..n |-> TextLine(40 + i)]
    \o [i \in 1..n |-> Tok(50 + i)]

LdtTail(mc, start, step, ng, n, extra) ==
    LET declared == LdtLampLines(n)
                    \o [i \in 1..10 |-> Tok(i)]
                    \o [i \in 1..mc |-> Tok(start + (i - 1) * step)]
                    \o [i \in 1..ng |-> Tok((i - 1) * 90)]
    IN  IF extra >= 0 THEN declared \o [j \in 1..extra |-> Tok(j)]
        ELSE SubSeq(declared, 1, Len(declared) + extra)

\* first C-angle and spacing of the C-angles a text lists
CAngleGrids == {<<0, 45>>, <<0, 60>>, <<0, 90>>, <<90, 45>>, <<90, 60>>, <<90, 90>>}

\* Every grid without lamp sets; the lamp sets over the grid 0, 90, ..
LdtTexts ==
    { LdtFixedLines(sym, mc, g[2], ng, 0) \o LdtTail(mc, g[1], g[2], ng, 0, extra) :
        sym \in 0..5, mc \in 0..MaxMc, ng \in 0..MaxNg, g \in CAngleGrids,
        extra \in (-MaxCut)..MaxInt }
    \cup
    { LdtFixedLines(sym, mc, 90, ng, n) \o LdtTail(mc, 0, 90, ng, n, extra) :
        sym \in 0..4, mc \in 0..MaxMc, ng \in 0..MaxNg, n \in 1..MaxLampSets,
        extra \in (-MaxCut)..MaxInt }

(***************************************************************************)
(* The planes handed to PhotometricWeb::set_planes by a caller that builds *)
(* a web itself, as the tests of photweb.rs and ops/mod.rs do.             *)
(***************************************************************************)
\* n primary angles spread over the full circle, in degrees
EvenAngles(n) == [i \in 1..n |-> ((i - 1) * 360) \div n]

PlaneAngleLists ==
    {EvenAngles(n) : n \in 0..MaxPlanes}
    \cup {<<0, 90, 180>>, <<0, 45, 180>>, <<0, 90>>, <<350, 10>>, <<0, 10, 20>>,
          <<0, 200>>}

\* plane.set_angle_degrees, set_angles_degrees, set_intensities: plane i of
\* the list holds the intensity c at every sample, or c + i when `varied`
SampledPlane(deg, gamma, cd) ==
    NewPlane(degrees_to_radians(deg), AnglesToRadians(gamma), [j \in 1..Len(gamma) |-> cd])

PlaneList(degs, gamma, c, varied) ==
    [i \in 1..Len(degs) |-> SampledPlane(degs[i], gamma, IF varied THEN c + i ELSE c)]

\* the secondary angles of the planes, in degrees
GammaLists == {<<88, 90, 92>>, <<90>>}

\* test_integrate_spherically_symmetric and test_integrate_planes: unit
\* intensity at every degree of 0..180, in one plane or in 36 planes 10
\* degrees apart
EveryDegree == [i \in 1..181 |-> i - 1]
TestPlaneLists ==
    { PlaneList(<<0>>, EveryDegree, 1, FALSE),
      PlaneList([i \in 1..36 |-> (i - 1) * 10], EveryDegree, 1, FALSE) }

PlaneLists ==
    { PlaneList(degs, gamma, c, varied) :
        degs \in PlaneAngleLists, gamma \in GammaLists, c \in 1..MaxCd,
        varied \in BOOLEAN }
    \cup TestPlaneLists

\* The webs handed to average_photmetric_web_intensities: no plane, one
\* plane or two planes, over one of two lists of secondary angles, and a web
\* whose second plane has other secondary angles than its first.  Every
\* intensity is a multiple of IntensityUnit, which every number of webs up
\* to MaxWebs + 1 divides, so that the f64 division of a sum by the number
\* of webs is exact.
IntensityUnit == 12
AverageGammaLists == {<<88, 90, 92>>, <<0, 90>>}
AveragePlane(deg, gamma, c) ==
    NewPlane(degrees_to_radians(deg), AnglesToRadians(gamma),
             [j \in 1..Len(gamma) |-> IntensityUnit * (c + j)])
\* a web whose one plane stands at 90 degrees, not at 0
RotatedWeb == set_planes(<<AveragePlane(90, <<88, 90, 92>>, 5)>>)
\* a web whose one plane was given three angles and two intensities
ShortWeb ==
    set_planes(<<NewPlane(degrees_to_radians(0), AnglesToRadians(<<88, 90, 92>>),
                          <<IntensityUnit, 2 * IntensityUnit>>)>>)
AverageWebs ==
    {<<>>}
    \cup { set_planes([i \in 1..Len(degs) |-> AveragePlane(degs[i], gamma, c + 2 * i)]) :
             degs \in {<<0>>, <<0, 180>>}, gamma \in AverageGammaLists, c \in 1..2 }
    \cup { set_planes(<<AveragePlane(0, <<88, 90, 92>>, 1),
                        AveragePlane(90, <<0, 90>>, 1)>>) }
    \cup { RotatedWeb, ShortWeb }

RECURSIVE WebLists(_)
WebLists(n) ==
    IF n = 0 THEN {<<>>}
    ELSE WebLists(n - 1)
         \cup {Append(l, w) : l \in {x \in WebLists(n - 1) : Len(x) = n - 1},
                              w \in AverageWebs}

\* The paths handed to the builder and the files they may name.
Paths ==
    { <<"a", "ies">>, <<"a", "ldt">>, <<"a", "eul">>, <<"a", "IES">>, <<"a", "txt">>,
      <<"a">>, <<"", "ies">>, <<"a", "">>, <<"a", "ies", "txt">>, <<"a", "txt", "ldt">> }

Files ==
    { [exists |-> FALSE, kind |-> "", text |-> <<>>],
      [exists |-> TRUE, kind |-> "", text |-> <<>>],
      [exists |-> TRUE, kind |-> "ies",
       text |-> PlainHead \o IesNumericBlock(2, 2, 1, <<0, 90>>, <<0, 45>>, 2, FALSE)],
      [exists |-> TRUE, kind |-> "ldt",
       text |-> LdtFixedLines(0, 2, 90, 1, 0) \o LdtTail(2, 0, 90, 1, 0, 2)] }

\* the indices handed to get_adjacent_planes: around the planes of the web
\* and at both ends of i32
PlaneIndices ==
    ((-2 * MaxPlanes)..(2 * MaxPlanes)) \cup {I32Min, I32Min + 1, I32Max - 1, I32Max}

(***************************************************************************)
(* The state machine.                                                      *)
(***************************************************************************)
Init ==
    /\ pc = "idle"
    /\ build \in {"debug", "release"}
    /\ iesText = <<>>
    /\ ies = IesFileNew
    /\ iesRes = NotRun
    /\ ldtText = <<>>
    /\ ldt = EulumdatFileNew
    /\ ldtRes = NotRun
    /\ web = <<>>
    /\ conv = "none"
    /\ given = <<>>
    /\ returned = <<>>

OverflowChecks == build = "debug"

\* ies.parse(&text)
IesParseText ==
    /\ pc = "idle"
    /\ \E text \in IesTexts :
         LET r == IesParse(ies, text) IN
         /\ iesText' = text
         /\ ies' = r.doc
         /\ iesRes' = r.res
    /\ pc' = "ies_parsed"
    /\ UNCHANGED <<build, ldtText, ldt, ldtRes, web, conv, given, returned>>

\* PhotometricWeb::from(ies): get_planes, then set_planes; reached from
\* PhotometricWebReader::read only when the parse returned Ok
IesIntoWeb ==
    /\ pc = "ies_parsed"
    /\ IsOk(iesRes)
    /\ LET g == IesGetPlanes(ies, OverflowChecks) IN
       IF g.panic THEN conv' = "abort" /\ web' = web
       ELSE conv' = "ok" /\ web' = set_planes(g.planes)
    /\ pc' = "ies_converted"
    /\ UNCHANGED <<build, iesText, ies, iesRes, ldtText, ldt, ldtRes, given, returned>>

\* ldt.parse(&text)
LdtParseText ==
    /\ pc = "idle"
    /\ \E text \in LdtTexts :
         LET r == LdtParse(ldt, text) IN
         /\ ldtText' = text
         /\ ldt' = r.doc
         /\ ldtRes' = r.res
    /\ pc' = "ldt_parsed"
    /\ UNCHANGED <<build, iesText, ies, iesRes, web, conv, given, returned>>

\* PhotometricWeb::from(eul)
LdtIntoWeb ==
    /\ pc = "ldt_parsed"
    /\ IsOk(ldtRes)
    /\ LET g == LdtGetPlanes(ldt, OverflowChecks) IN
       IF g.panic THEN conv' = "abort" /\ web' = web
       ELSE conv' = "ok" /\ web' = set_planes(g.planes)
    /\ pc' = "ldt_converted"
    /\ UNCHANGED <<build, iesText, ies, iesRes, ldtText, ldt, ldtRes, given, returned>>

\* web.set_planes(planes) on a PhotometricWeb::new()
WebSetPlanes ==
    /\ pc = "idle"
    /\ \E planes \in PlaneLists : web' = set_planes(planes)
    /\ pc' = "set_planes"
    /\ UNCHANGED <<build, iesText, ies, iesRes, ldtText, ldt, ldtRes, conv, given, returned>>

\* web.get_adjacent_planes(iplane)
WebGetAdjacentPlanes ==
    /\ pc = "set_planes"
    /\ \E iplane \in PlaneIndices :
         /\ given' = iplane
         /\ returned' = IF get_adjacent_planes_panics(web, iplane, OverflowChecks)
                   THEN [panic |-> TRUE, lower |-> <<>>, upper |-> <<>>]
                   ELSE LET adj == get_adjacent_planes(web, iplane) IN
                        [panic |-> FALSE, lower |-> adj[1], upper |-> adj[2]]
    /\ pc' = "get_adjacent_planes"
    /\ UNCHANGED <<build, iesText, ies, iesRes, ldtText, ldt, ldtRes, web, conv>>

\* web.total_intensity()
WebTotalIntensity ==
    /\ pc = "set_planes"
    /\ given' = <<>>
    /\ returned' = total_intensity(web)
    /\ pc' = "total_intensity"
    /\ UNCHANGED <<build, iesText, ies, iesRes, ldtText, ldt, ldtRes, web, conv>>

\* average_photmetric_web_intensities(input_webs); the webs are borrowed
\* immutably and stay as they are
OpsAverage ==
    /\ pc = "idle"
    /\ \E input_webs \in WebLists(MaxWebs) :
         /\ given' = input_webs
         /\ returned' = average_photmetric_web_intensities(input_webs)
    /\ pc' = "average"
    /\ UNCHANGED <<build, iesText, ies, iesRes, ldtText, ldt, ldtRes, web, conv>>

\* PhotometricWebBuilder::from_file(path).build()
BuilderBuild ==
    /\ pc = "idle"
    /\ \E path \in Paths, file \in Files :
         /\ given' = [path |-> path, file |-> file]
         /\ returned' = build_from_file(path, file, OverflowChecks)
    /\ pc' = "build"
    /\ UNCHANGED <<build, iesText, ies, iesRes, ldtText, ldt, ldtRes, web, conv>>

\* ies.to_string(), then IesFile::new().parse(&text) of what was written
IesWriteAndReparse ==
    /\ pc = "ies_parsed"
    /\ IsOk(iesRes)
    /\ \E order \in KeyOrders(ies.keywords) :
         LET w == IesToString(ies, order) IN
         /\ given' = w
         /\ returned' = IF w.panic THEN [doc |-> IesFileNew, res |-> NotRun]
                        ELSE IesParse(IesFileNew, w.text)
    /\ pc' = "ies_rewritten"
    /\ UNCHANGED <<build, iesText, ies, iesRes, ldtText, ldt, ldtRes, web, conv>>

\* ldt.to_string(), then EulumdatFile::new().parse(&text) of what was written
LdtWriteAndReparse ==
    /\ pc = "ldt_parsed"
    /\ IsOk(ldtRes)
    /\ LET w == EulumdatToString(ldt, OverflowChecks) IN
       /\ given' = w
       /\ returned' = IF w.panic THEN [doc |-> EulumdatFileNew, res |-> NotRun]
                      ELSE LdtParse(EulumdatFileNew, w.text)
    /\ pc' = "ldt_rewritten"
    /\ UNCHANGED <<build, iesText, ies, iesRes, ldtText, ldt, ldtRes, web, conv>>

\* a second ies.parse(&text) on the document that has parsed the text
IesParseAgain ==
    /\ pc = "ies_parsed"
    /\ IsOk(iesRes)
    /\ LET r == IesParse(ies, iesText) IN
       /\ ies' = r.doc
       /\ iesRes' = r.res
    /\ returned' = [doc |-> ies, res |-> iesRes]
    /\ pc' = "ies_parsed_again"
    /\ UNCHANGED <<build, iesText, ldtText, ldt, ldtRes, web, conv, given>>

\* a second ldt.parse(&text) on the document that has parsed the text
LdtParseAgain ==
    /\ pc = "ldt_parsed"
    /\ IsOk(ldtRes)
    /\ LET r == LdtParse(ldt, ldtText) IN
       /\ ldt' = r.doc
       /\ ldtRes' = r.res
    /\ returned' = [doc |-> ldt, res |-> ldtRes]
    /\ pc' = "ldt_parsed_again"
    /\ UNCHANGED <<build, iesText, ies, iesRes, ldtText, web, conv, given>>

Next ==
    \/ IesParseText
    \/ IesIntoWeb
    \/ LdtParseText
    \/ LdtIntoWeb
    \/ WebSetPlanes
    \/ WebGetAdjacentPlanes
    \/ WebTotalIntensity
    \/ OpsAverage
    \/ BuilderBuild
    \/ IesWriteAndReparse
    \/ LdtWriteAndReparse
    \/ IesParseAgain
    \/ LdtParseAgain

Spec == Init /\ [][Next]_vars

(***************************************************************************)
(* Properties of the parsers.                                              *)
(***************************************************************************)
IesParsed == pc \in {"ies_parsed", "ies_converted"}
LdtParsed == pc \in {"ldt_parsed", "ldt_converted"}

\* The lines of the numeric block of the text last parsed (1-based indices
\* into iesText) and the counts its first line declares.
ScalarLine == iesText[NumericStart(iesText) + 1]
VerticalLine == iesText[NumericStart(iesText) + 3]
HorizontalLine == iesText[NumericStart(iesText) + 4]
DeclaredV == ScalarLine.toks[4].v
DeclaredH == ScalarLine.toks[5].v
DeclaredType == ScalarLine.toks[6].v

\* C1: whenever IesFile::parse returns Ok on a fresh document, the three
\* arrays hold exactly n_vertical_angles, n_horizontal_angles and
\* n_vertical_angles * n_horizontal_angles values.
C1_ArrayLengthsExact ==
    (IesParsed /\ IsOk(iesRes)) =>
        /\ Len(ies.vertical_angles) = ies.n_vertical_angles
        /\ Len(ies.horizontal_angles) = ies.n_horizontal_angles
        /\ Len(ies.candela_values) = ies.n_vertical_angles * ies.n_horizontal_angles

\* C2: whenever EulumdatFile::parse returns Ok on a fresh document, c_angles
\* holds Mc values, g_angles Ng values and intensities (Mc2 - Mc1 + 1) * Ng.
C2_SectionLengthsExact ==
    (LdtParsed /\ IsOk(ldtRes)) =>
        /\ Len(ldt.c_angles) = ldt.n_cplanes
        /\ Len(ldt.g_angles) = ldt.n_luminous_intensities_per_cplane
        /\ Len(ldt.intensities) =
             (mc2(ldt) - mc1(ldt) + 1) * ldt.n_luminous_intensities_per_cplane

\* A text whose numeric block is well formed up to the horizontal-angle line
\* and whose horizontal-angle line holds fewer values than declared.
HorizontalLineShort ==
    /\ IesParsed
    /\ DeclaredType \in 1..3
    /\ Len(VerticalLine.toks) = DeclaredV
    /\ Len(HorizontalLine.toks) < DeclaredH

\* C3: a text whose horizontal-angle line supplies fewer values than the
\* declared n_horizontal_angles is answered with the length-mismatch error,
\* citing that line's number, the expected and the actual count.
C3_ShortHorizontalLineRejected ==
    HorizontalLineShort =>
        iesRes = Err("ArrayIncorrectLength", NumericStart(iesText) + 4,
                     DeclaredH, Len(HorizontalLine.toks), 0)

NonDecreasing(s) == \A i \in 1..(Len(s) - 1) : s[i] <= s[i + 1]

\* C4: a text is accepted only if its vertical angles are non-decreasing and
\* obey the hemisphere rule and its horizontal angles obey the symmetry rule.
C4_AcceptedAnglesValid ==
    (IesParsed /\ IsOk(iesRes)) =>
        /\ NonDecreasing(ies.vertical_angles)
        /\ vertical_angles_valid(ies.vertical_angles)
        /\ horizontal_angles_valid(ies.horizontal_angles)

\* C5: converting a document that parsed successfully always returns a web.
C5_ConversionNeverAborts ==
    pc \in {"ies_converted", "ldt_converted"} => conv = "ok"

(***************************************************************************)
(* Properties of the symmetry expansion.                                   *)
(***************************************************************************)
\* The planes the converted EULUMDAT document stores, and their C-angles in
\* degrees as parsed.
Stored == StoredPlanes(ldt)
StoredDeg(i) == ldt.c_angles[i]
Deg(d) == degrees_to_radians(d)

StrictlyIncreasing(s) == \A i \in 1..(Len(s) - 1) : s[i] < s[i + 1]
Angles(ps) == [i \in 1..Len(ps) |-> ps[i].angle]

\* plane p is plane q but for its width and, when given, its primary angle
SameSamples(p, q) == p.angles = q.angles /\ p.intensities = q.intensities
SamePlane(p, q) == p.angle = q.angle /\ SameSamples(p, q)

\* the converted document stores planes at lo = a_0 < .. < a_k = hi degrees
StoredSpan(sym, lo, hi) ==
    /\ pc = "ldt_converted"
    /\ ldt.symmetry = sym
    /\ ldt.n_luminous_intensities_per_cplane > 0
    /\ Len(Stored) >= 2
    /\ StrictlyIncreasing(Angles(Stored))
    /\ StoredDeg(1) = lo
    /\ StoredDeg(Len(Stored)) = hi

\* C6: symmetry C0-C180 with stored planes at 0 = a_0 < .. < a_k = 180 gives
\* exactly 2k planes: the k+1 stored planes in order, then a plane at
\* 360 - a_i with the samples of the stored plane at a_i for i = k-1 .. 1.
C6_C0C180Expansion ==
    StoredSpan("C0C180Plane", 0, 180) =>
        LET k == Len(Stored) - 1 IN
        /\ conv = "ok"
        /\ Len(web) = 2 * k
        /\ \A i \in 1..(k + 1) : SamePlane(web[i], Stored[i])
        /\ \A j \in 1..(k - 1) :
             /\ web[k + 1 + j].angle = Deg(360 - StoredDeg(k + 1 - j))
             /\ SameSamples(web[k + 1 + j], Stored[k + 1 - j])

C6_Witness ==
    /\ StoredSpan("C0C180Plane", 0, 180)
    /\ Len(Stored) >= 3
    /\ conv = "ok"
    /\ Len(web) >= 4

\* the direction of angle a is the direction of angle b
SameDirection(a, b) == (a - b) % (2 * PI) = 0

C8_QuadrantExpansion ==
    StoredSpan("C0C180C90C270Plane", 0, 90) =>
        LET k == Len(Stored) - 1 IN
        /\ conv = "ok"
        /\ Len(web) = 4 * k
        /\ StrictlyIncreasing(Angles(web))
        /\ \A j \in 1..(k + 1) : SamePlane(web[j], Stored[j])
        /\ \A j \in 1..(k + 1) : \A i \in 1..Len(web) :
             web[i].angle \in {Deg(180 - StoredDeg(j)), Deg(180 + StoredDeg(j)),
                               Deg(360 - StoredDeg(j))}
                => SameSamples(web[i], Stored[j])
        /\ \A j \in 2..k : \A b \in {Deg(180 - StoredDeg(j)), Deg(180 + StoredDeg(j)),
                                     Deg(360 - StoredDeg(j))} :
             \E i \in 1..Len(web) : web[i].angle = b

C8_Witness ==
    /\ StoredSpan("C0C180C90C270Plane", 0, 90)
    /\ conv = "ok"
    /\ Len(Stored) = 3
    /\ Len(web) = 8

\* C9: a Type C IES document with n >= 2 stored horizontal angles: last angle
\* 90 gives 4(n-1) planes, last angle 180 gives 2(n-1) planes, any other last
\* angle gives the n stored planes unchanged.
C9_TypeCExpansion ==
    (/\ pc = "ies_converted"
     /\ ies.photometric_type = "TypeC"
     /\ Len(ies.horizontal_angles) >= 2) =>
        LET n == Len(ies.horizontal_angles)
            last == ies.horizontal_angles[n]
        IN  /\ conv = "ok"
            /\ last = 90 => Len(web) = 4 * (n - 1)
            /\ last = 180 => Len(web) = 2 * (n - 1)
            /\ last \notin {90, 180} =>
                 /\ Len(web) = n
                 /\ \A i \in 1..n : web[i].angle = Deg(ies.horizontal_angles[i])

\* C10: a EULUMDAT document parsed successfully with a symmetry other than
\* "about vertical axis" converts into a web of exactly Mc planes.
C10_WebHasMcPlanes ==
    (pc = "ldt_converted" /\ ldt.symmetry # "AboutVerticalAxis") =>
        conv = "ok" /\ Len(web) = ldt.n_cplanes

(***************************************************************************)
(* Properties of the web.                                                  *)
(***************************************************************************)
\* 0-based position (i + d) mod n, in 0..n-1, for d in {-1, 1}
Around(i, d, n) == ((i % n) + n + d) % n

\* C11: for a web of n >= 1 planes and any index i, get_adjacent_planes(i)
\* returns the planes at 0-based positions (i-1) mod n and (i+1) mod n.
C11_AdjacentPlanesWrap ==
    (pc = "get_adjacent_planes" /\ Len(web) >= 1)
        => /\ ~returned.panic
           /\ returned.lower = web[Around(given, -1, Len(web)) + 1]
           /\ returned.upper = web[Around(given, 1, Len(web)) + 1]

\* The same for the indices whose neighbours i - 1 and i + 1 are i32 values.
AdjacentPlanesWrapWithinI32 ==
    (pc = "get_adjacent_planes" /\ Len(web) >= 1 /\ given > I32Min /\ given < I32Max)
        => /\ ~returned.panic
           /\ returned.lower = web[Around(given, -1, Len(web)) + 1]
           /\ returned.upper = web[Around(given, 1, Len(web)) + 1]

\* the unsigned angle between two directions a and b, in 0..PI
CircularDistance(a, b) ==
    CHOOSE d \in 0..PI : (a - b - d) % (2 * PI) = 0 \/ (a - b + d) % (2 * PI) = 0

\* plane i (1-based) of the web, its circular predecessor and successor
PrevPlane(i) == web[IF i = 1 THEN Len(web) ELSE i - 1]
NextPlane(i) == web[IF i = Len(web) THEN 1 ELSE i + 1]
DistanceToPrev(i) == CircularDistance(web[i].angle, PrevPlane(i).angle)
DistanceToNext(i) == CircularDistance(NextPlane(i).angle, web[i].angle)

\* every state holding a web holds it as set_planes left it
WebIsSet == pc \in {"set_planes", "get_adjacent_planes", "total_intensity"} \/ conv = "ok"

\* C12 (as amended): after set_planes the width of the only plane of a web is
\* 2*PI; otherwise a plane at equal distances d from its previous and next
\* planes has the single symmetric width d, the whole common spacing (the sum
\* of the two half-spacings), and a plane at different distances has the two
\* half-widths lower = half the distance to the previous plane and upper =
\* half the distance to the next plane.
C12_WidthsAfterSetPlanes ==
    WebIsSet =>
        \A i \in 1..Len(web) :
            IF Len(web) = 1 THEN web[i].width = Symmetric(2 * PI)
            ELSE IF DistanceToPrev(i) = DistanceToNext(i)
                 THEN web[i].width = Symmetric(DistanceToPrev(i))
                 ELSE web[i].width =
                          Asymmetric(DistanceToPrev(i) \div 2, DistanceToNext(i) \div 2)

\* C12 witness: a web holding a plane of symmetric width next to a plane of
\* two different half-widths
C12_Witness ==
    /\ pc = "set_planes"
    /\ Len(web) = 3
    /\ DistanceToPrev(2) = DistanceToNext(2)
    /\ web[2].width.kind = "Symmetric" /\ web[2].width.w > 0
    /\ DistanceToPrev(3) # DistanceToNext(3)
    /\ web[3].width.kind = "Asymmetric"
    /\ web[3].width.lower # web[3].width.upper

\* C12 (as stated): the symmetric width is half the common spacing.
C12_SymmetricWidthIsHalfSpacing ==
    WebIsSet =>
        \A i \in 1..Len(web) :
            IF Len(web) = 1 THEN web[i].width = Symmetric(2 * PI)
            ELSE IF DistanceToPrev(i) = DistanceToNext(i)
                 THEN web[i].width = Symmetric(DistanceToPrev(i) \div 2)
                 ELSE web[i].width =
                          Asymmetric(DistanceToPrev(i) \div 2, DistanceToNext(i) \div 2)

\* the planes of the web are N >= 2 copies of one plane, plane i at the
\* primary angle (i - 1) * 2*PI / N
IdenticalEvenlySpaced ==
    /\ Len(web) >= 2
    /\ (2 * PI) % Len(web) = 0
    /\ \A i \in 1..Len(web) :
          /\ web[i].angle = (i - 1) * ((2 * PI) \div Len(web))
          /\ SameSamples(web[i], web[1])

\* the spherically symmetric web holding the one plane p
OnePlaneWeb(p) == set_planes(<<[p EXCEPT !.width = DefaultWidth]>>)

\* unit intensity sampled at every degree of 0..180
UnitEveryDegree(p) ==
    /\ p.angles = [i \in 1..181 |-> 2 * (i - 1)]
    /\ p.intensities = [i \in 1..181 |-> 1]

\* PI as the fraction PiNum / PiDen, which is off by less than 1e-7 of PI
PiNum == 355
PiDen == 113

\* A total v, a count of (PI/360)^2 / SinScale, is within 1e-4 of 4*PI:
\* |v * (PI/360)^2 / SinScale - 4*PI| <= 4*PI * 1e-4, divided by
\* 2 * (PI/360)^2 / SinScale and with the real PI as PiNum / PiDen.
WithinToleranceOfFourPi(v) ==
    Abs((v \div (2 * PI)) * PiNum - 2 * PI * SinScale * PiDen)
        <= ((2 * PI * SinScale) \div 10000) * PiDen

\* C13: a web of N >= 2 identical planes evenly spaced around the circle has
\* the total_intensity of the spherically symmetric web of one such plane,
\* and for unit intensity at every degree of 0..180 the total is 4*PI within
\* a relative 1e-4, in one plane and in 36 planes 10 degrees apart.
C13_TotalIntensityOfEvenWeb ==
    pc = "total_intensity" =>
        /\ IdenticalEvenlySpaced => returned = total_intensity(OnePlaneWeb(web[1]))
        /\ (Len(web) >= 1 /\ \A i \in 1..Len(web) : UnitEveryDegree(web[i]))
             /\ (Len(web) = 1 \/ IdenticalEvenlySpaced)
             => ~returned.panic /\ WithinToleranceOfFourPi(returned.v)

\* C13 witness: the total of 36 unit planes 10 degrees apart was computed
C13_Witness ==
    /\ pc = "total_intensity"
    /\ Len(web) = 36
    /\ IdenticalEvenlySpaced
    /\ UnitEveryDegree(web[36])
    /\ ~returned.panic
    /\ returned.v > 0

(***************************************************************************)
(* Properties of average_photmetric_web_intensities.                       *)
(***************************************************************************)
Averaged == pc = "average"
CountsDiffer == \E w \in 1..Len(given) : Len(given[w]) # Len(given[1])
SecondaryAnglesDiffer ==
    \E w \in 1..Len(given) : \E p \in 1..Len(given[w]) :
        given[w][p].angles # given[1][1].angles

\* C14: the checks run in this order and the first that fails gives the
\* error, with no web: no input web; differing plane counts, whether or not
\* secondary angles differ too; a plane whose secondary angles differ from
\* those of the first plane of the first web.
C14_ValidationOrder ==
    Averaged =>
        /\ Len(given) = 0 => returned.kind = "NoPlanes"
        /\ (Len(given) > 0 /\ CountsDiffer)
             => returned.kind = "InconsistentNumberOfPlanes"
        /\ (Len(given) > 0 /\ ~CountsDiffer /\ SecondaryAnglesDiffer)
             => returned.kind = "InconsistentPlaneAngles"
        /\ returned.kind # "Ok" => returned.web = <<>>

\* C14 witness: plane counts and secondary angles both differ, and the
\* plane-count error came back
C14_Witness ==
    /\ Averaged
    /\ Len(given) > 0
    /\ CountsDiffer
    /\ Len(given[1]) > 0
    /\ SecondaryAnglesDiffer
    /\ returned.kind = "InconsistentNumberOfPlanes"

\* 0-based position of the first web whose plane count is not the first web's
FirstDivergentWeb ==
    (CHOOSE w \in 1..Len(given) :
        /\ Len(given[w]) # Len(given[1])
        /\ \A v \in 1..(w - 1) : Len(given[v]) = Len(given[1])) - 1

\* C15: when plane counts differ the error names the plane count of the
\* first web, the plane count of the first web that differs from it and the
\* 0-based position of that web.
C15_MismatchErrorFields ==
    (Averaged /\ Len(given) > 0 /\ CountsDiffer) =>
        /\ returned.kind = "InconsistentNumberOfPlanes"
        /\ returned.expect = Len(given[1])
        /\ returned.idx = FirstDivergentWeb
        /\ returned.found = Len(given[FirstDivergentWeb + 1])

\* C15 witness: the third web is the first to differ
C15_Witness ==
    /\ Averaged
    /\ Len(given) = 3
    /\ Len(given[2]) = Len(given[1])
    /\ Len(given[3]) # Len(given[1])
    /\ returned.idx = 2
    /\ returned.found # returned.expect

\* C16: a successful averaging returns a web with the plane count and the
\* primary angles of the first web and the common secondary angles, whose
\* intensity at sample j of plane i, times the number of webs, is the sum of
\* that sample over the webs.
C16_AverageIsMean ==
    (Averaged /\ returned.kind = "Ok") =>
        /\ Len(given) >= 1
        /\ Len(returned.web) = Len(given[1])
        /\ \A i \in 1..Len(returned.web) :
              /\ returned.web[i].angle = given[1][i].angle
              /\ returned.web[i].angles = given[1][1].angles
              /\ \A w \in 1..Len(given) : given[w][i].angles = returned.web[i].angles
              /\ Len(returned.web[i].intensities) = Len(returned.web[i].angles)
              /\ \A j \in 1..Len(returned.web[i].intensities) :
                    returned.web[i].intensities[j] * Len(given)
                        = SumSeq([w \in 1..Len(given) |-> given[w][i].intensities[j]])

\* C16 witness: three webs of two planes, not all of the same intensities,
\* were averaged
C16_Witness ==
    /\ Averaged
    /\ returned.kind = "Ok"
    /\ Len(given) = 3
    /\ Len(returned.web) = 2
    /\ given[1][2].intensities # given[3][2].intensities
    /\ returned.web[2].intensities # given[1][2].intensities

(***************************************************************************)
(* Properties of the builder.                                              *)
(***************************************************************************)
\* the last part of the file name when the name has an extension
HasExtension(path) == Len(path) >= 2 /\ ~(Len(path) = 2 /\ path[1] = "")
LastPart(path) == path[Len(path)]

\* C17: a path with extension `ies` goes to the IES parser, one with `ldt`
\* or `eul` to the EULUMDAT parser; any other extension, and a path with no
\* extension, gives InvalidFileType naming the extension, with no parser
\* invoked and no web.
C17_ParserSelection ==
    pc = "build" =>
        LET path == given.path IN
        IF HasExtension(path) /\ LastPart(path) = "ies" THEN returned.parser = "ies"
        ELSE IF HasExtension(path) /\ LastPart(path) \in {"ldt", "eul"}
        THEN returned.parser = "eulumdat"
        ELSE /\ returned.kind = "InvalidFileType"
             /\ returned.ext = (IF HasExtension(path) THEN LastPart(path) ELSE "")
             /\ returned.parser = "none"
             /\ returned.web = <<>>

\* C17 witness: an `eul` file was built into a web, and so was an `ies` file
C17_Witness ==
    /\ pc = "build"
    /\ LastPart(given.path) = "eul"
    /\ returned.kind = "Ok"
    /\ returned.parser = "eulumdat"
    /\ Len(returned.web) > 0

(***************************************************************************)
(* Properties of failed parses.                                            *)
(***************************************************************************)
\* parse returned Err(..)
Failed(res) == IsErr(res) /\ res.kind # "Panic"

\* C18: when parse returns an error, the document it was called on is as it
\* was before the call (a new document): no field holds a value taken from
\* the text that failed.
C18_FailedParseLeavesDocument ==
    /\ (pc = "ies_parsed" /\ Failed(iesRes)) => ies = IesFileNew
    /\ (pc = "ldt_parsed" /\ Failed(ldtRes)) => ldt = EulumdatFileNew

\* the same for each parser alone
FailedIesParseLeavesDocument == (pc = "ies_parsed" /\ Failed(iesRes)) => ies = IesFileNew
FailedLdtParseLeavesDocument == (pc = "ldt_parsed" /\ Failed(ldtRes)) => ldt = EulumdatFileNew

(***************************************************************************)
(* Properties of the line numbers of the errors of IesFile::parse.         *)
(***************************************************************************)
\* 1-based numbers of the lines of the text
HasStandardLine == iesText # <<>> /\ iesText[1].k = "std"
TiltLineNumber == TiltPosition(iesText) + 1
KeywordLineNumbers == ((IF HasStandardLine THEN 2 ELSE 1)..(TiltLineNumber - 1))
SubTableLineNumbers ==
    IF iesText[TiltLineNumber].s = "INCLUDE"
    THEN (TiltLineNumber + 1)..(TiltLineNumber + 4) ELSE {}
NumericLineNumbers == (NumericStart(iesText) + 1)..Len(iesText)

\* a line of the sub-table or of the numeric block with a token that is no number
HasBadToken(n) == \E t \in 1..Len(LineTokens(iesText[n])) : ~LineTokens(iesText[n])[t].ok
Least(S) == CHOOSE n \in S : \A m \in S : n <= m

FaultyKeywordLines == {n \in KeywordLineNumbers : iesText[n].k # "kw"}
FaultySubTableLines == {n \in SubTableLineNumbers : HasBadToken(n)}
FaultyNumericLines == {n \in NumericLineNumbers : HasBadToken(n)}

\* the number of tokens of the numeric block before line n, and the 1-based
\* place among the tokens of the block of the first bad token of line n
TokensBefore(n) ==
    SumSeq([i \in 1..(n - NumericStart(iesText) - 1) |->
               Len(LineTokens(iesText[NumericStart(iesText) + i]))])
FirstBadTokenPlace(n) ==
    TokensBefore(n) + FirstBadToken(LineTokens(iesText[n]), 1)

\* an invalid-keyword error names the first line that is no keyword line
InvalidKeywordLineIsFileLine ==
    (pc = "ies_parsed" /\ iesRes.kind = "InvalidKeyword")
        => iesRes.line = Least(FaultyKeywordLines)

\* an error of the sub-table names the first line of it with a bad token
SubTableErrorLineIsFileLine ==
    (pc = "ies_parsed" /\ TiltPosition(iesText) >= 0 /\ FaultyKeywordLines = {}
       /\ FaultySubTableLines # {})
        => iesRes.line = Least(FaultySubTableLines)

\* a parse error of the numeric block names the first line of it with a bad
\* token and the place of that token among the tokens of the block
NumericErrorLineIsFileLine ==
    (pc = "ies_parsed" /\ TiltPosition(iesText) >= 0 /\ FaultyKeywordLines = {}
       /\ FaultySubTableLines = {} /\ FaultyNumericLines # {}
       /\ iesRes.kind \in {"ParseFloatError", "ParseIntError"})
        => /\ iesRes.line = Least(FaultyNumericLines)
           /\ iesRes.item = FirstBadTokenPlace(Least(FaultyNumericLines))

\* C19: an error of IesFile::parse that carries a line number carries the
\* 1-based number, in the whole text, of the line that caused it: an
\* invalid keyword under every standard, an error of the TILT=INCLUDE
\* sub-table, and an error of the numeric block, which also carries the
\* 1-based place of the offending token.
C19_ErrorLineNumbers ==
    /\ InvalidKeywordLineIsFileLine
    /\ SubTableErrorLineIsFileLine
    /\ NumericErrorLineIsFileLine

(***************************************************************************)
(* Properties of the IES writer.                                           *)
(***************************************************************************)
\* C20: for a document d of a successful parse, parsing d.to_string() into
\* a new document succeeds and gives the standard, keywords, tilt, scalars,
\* angle arrays and candela values of d; the text has the standard line if
\* any, the keyword lines, the TILT line or sub-table, the two scalar
\* lines, one line of vertical angles, one of horizontal angles and one
\* candela line per horizontal angle.
C20_WriteReadRoundTrip ==
    pc = "ies_rewritten" =>
        /\ ~given.panic
        /\ IsOk(returned.res)
        /\ returned.doc = ies
        /\ Len(given.text) =
              Len(StandardLines(ies.standard)) + Cardinality(DOMAIN ies.keywords)
              + (IF ies.tilt.some THEN 5 ELSE 1) + 4 + Len(ies.horizontal_angles)

\* the parts of C20, each alone
RewrittenTextParses == pc = "ies_rewritten" => (~given.panic /\ IsOk(returned.res))
RewrittenTextLines ==
    (pc = "ies_rewritten" /\ ~given.panic) =>
        Len(given.text) =
            Len(StandardLines(ies.standard)) + Cardinality(DOMAIN ies.keywords)
            + (IF ies.tilt.some THEN 5 ELSE 1) + 4 + Len(ies.horizontal_angles)

(***************************************************************************)
(* Properties of the EULUMDAT writer.                                      *)
(***************************************************************************)
\* the number of lines of a complete file with the counts of the document
CompleteLineCount(doc) ==
    26 + 6 * doc.n_lamp_sets + 10 + doc.n_cplanes + doc.n_luminous_intensities_per_cplane
    + (mc2(doc) - mc1(doc) + 1) * doc.n_luminous_intensities_per_cplane

\* the parsed text is a complete file
CompleteFile == Len(ldtText) = CompleteLineCount(ldt)

\* C21: for a document d parsed successfully from a complete file,
\* d.to_string() has 26 + 6n + 10 + Mc + Ng + (Mc2 - Mc1 + 1) * Ng lines, in
\* the order the parser reads them (it is the text that was parsed), and
\* parsing it into a new document succeeds and gives a document equal to d.
C21_WriteReadRoundTrip ==
    (pc = "ldt_rewritten" /\ CompleteFile) =>
        /\ ~given.panic
        /\ Len(given.text) = CompleteLineCount(ldt)
        /\ given.text = ldtText
        /\ IsOk(returned.res)
        /\ returned.doc = ldt

\* C21 for the documents that hold one C-plane at least
WriteReadRoundTripWithPlanes ==
    (pc = "ldt_rewritten" /\ CompleteFile /\ ldt.n_cplanes > 0) =>
        /\ ~given.panic
        /\ given.text = ldtText
        /\ IsOk(returned.res)
        /\ returned.doc = ldt

(***************************************************************************)
(* Properties of the planes of a converted web.                            *)
(***************************************************************************)
Converted == pc \in {"ies_converted", "ldt_converted"} /\ conv = "ok"

AnglesMatchIntensities ==
    Converted => \A i \in 1..Len(web) : Len(web[i].angles) = Len(web[i].intensities)
SecondaryAnglesIncrease ==
    Converted => \A i \in 1..Len(web) : StrictlyIncreasing(web[i].angles)

\* C22: every plane of a web converted from a successfully parsed IES or
\* EULUMDAT text has as many intensities as secondary angles, and its
\* secondary angles are strictly increasing.
C22_PlaneInvariant == AnglesMatchIntensities /\ SecondaryAnglesIncrease

(***************************************************************************)
(* Properties of the keyword block.                                        *)
(***************************************************************************)
\* the keyword block of the parsed text is KeywordLineNumbers: the lines
\* between the standard line, if any, and the TILT= line
IsMore(n) == iesText[n].s = "MORE"
NamedLines == {n \in KeywordLineNumbers : ~IsMore(n)}
WellFormedKeywordBlock ==
    /\ TiltPosition(iesText) # -1
    /\ \A n \in KeywordLineNumbers : iesText[n].k = "kw"

\* the value of the keyword line n followed by the values of the [MORE]
\* lines directly after it, each preceded by one space
RECURSIVE WithContinuations(_, _)
WithContinuations(val, n) ==
    IF n \in KeywordLineNumbers /\ IsMore(n)
    THEN WithContinuations(val \o <<" ">> \o iesText[n].v, n + 1)
    ELSE val

\* the last line that names the keyword key
LastNaming(key) == CHOOSE n \in NamedLines :
    iesText[n].s = key /\ \A m \in NamedLines : iesText[m].s = key => m <= n

ExpectedKeywords ==
    [key \in {iesText[n].s : n \in NamedLines} |->
        WithContinuations(iesText[LastNaming(key)].v, LastNaming(key) + 1)]

\* C23: for a keyword block that ends at a TILT= line, every line other
\* than [MORE] makes an entry, no [MORE] line makes one, and every [MORE]
\* value is appended after one space to the value of the latest keyword
\* before it, wherever the [MORE] line stands.
C23_MoreAppends ==
    (pc = "ies_parsed" /\ WellFormedKeywordBlock) =>
        /\ iesRes.kind # "Panic"
        /\ ies.keywords = ExpectedKeywords

\* C23 for the blocks whose first line is no [MORE] line
MoreAfterKeywordAppends ==
    (pc = "ies_parsed" /\ WellFormedKeywordBlock
        /\ \E n \in KeywordLineNumbers : IsMore(n)
        /\ ~IsMore(Least(KeywordLineNumbers))) =>
        /\ iesRes.kind # "Panic"
        /\ ies.keywords = ExpectedKeywords

(***************************************************************************)
(* Properties of the sections of a EULUMDAT text.                          *)
(***************************************************************************)
\* what the document holds of line n of the parsed text
StoredNumber(n) == ldtText[n].v
StoredText(n) == ldtText[n]

\* the lines first .. first + count - 1 of the parsed text, as far as the
\* text has them
SectionLines(first, count) ==
    LET last == Min(first + count - 1, Len(ldtText)) IN
    IF last < first THEN <<>> ELSE [i \in 1..(last - first + 1) |-> first + i - 1]
NumberSection(first, count) ==
    [i \in 1..Len(SectionLines(first, count)) |-> StoredNumber(SectionLines(first, count)[i])]
TextSection(first, count) ==
    [i \in 1..Len(SectionLines(first, count)) |-> StoredText(SectionLines(first, count)[i])]

\* first line of lamp array k, of the direct ratios, of the C-angles, of the
\* G-angles and of the intensities, from the counts of the document
LampArrayStart(k) == 27 + k * ldt.n_lamp_sets
DirectRatiosStart == 27 + 6 * ldt.n_lamp_sets
CAnglesStart == DirectRatiosStart + 10
GAnglesStart == CAnglesStart + ldt.n_cplanes
IntensitiesStart == GAnglesStart + ldt.n_luminous_intensities_per_cplane

LdtParsedOk == pc = "ldt_parsed" /\ IsOk(ldtRes)

\* C24: after a successful parse the six lamp arrays hold the lines
\* 27 + k*n .. 27 + (k+1)*n - 1 (k = 0..5, n the lamp-set count of line 26),
\* direct_ratios the next 10 lines, c_angles the next Mc lines, g_angles the
\* next Ng lines and intensities every later line; after a complete file
\* each lamp array has n entries and direct_ratios has 10.
C24_SectionsFromCounts ==
    LdtParsedOk =>
        /\ ldt.n_lamp = NumberSection(LampArrayStart(0), ldt.n_lamp_sets)
        /\ ldt.lamp_type = TextSection(LampArrayStart(1), ldt.n_lamp_sets)
        /\ ldt.tot_luminous_flux = NumberSection(LampArrayStart(2), ldt.n_lamp_sets)
        /\ ldt.color_temperature = TextSection(LampArrayStart(3), ldt.n_lamp_sets)
        /\ ldt.color_rendering_group = TextSection(LampArrayStart(4), ldt.n_lamp_sets)
        /\ ldt.wattage = NumberSection(LampArrayStart(5), ldt.n_lamp_sets)
        /\ ldt.direct_ratios = NumberSection(DirectRatiosStart, 10)
        /\ ldt.c_angles = NumberSection(CAnglesStart, ldt.n_cplanes)
        /\ ldt.g_angles = NumberSection(GAnglesStart, ldt.n_luminous_intensities_per_cplane)
        /\ ldt.intensities = NumberSection(IntensitiesStart, Len(ldtText))
        /\ CompleteFile =>
              /\ \A f \in {"n_lamp", "lamp_type", "tot_luminous_flux", "color_temperature",
                            "color_rendering_group", "wattage"} :
                    Len(ldt[f]) = ldt.n_lamp_sets
              /\ Len(ldt.direct_ratios) = 10

\* a complete file with two lamp sets, C-angles, G-angles and intensities
\* has been parsed
C24_Witness ==
    /\ LdtParsedOk
    /\ CompleteFile
    /\ ldt.n_lamp_sets = 2
    /\ ldt.wattage = <<51, 52>>
    /\ Len(ldt.c_angles) > 1
    /\ Len(ldt.intensities) > 1

(***************************************************************************)
(* Properties of the primary angles of a converted web.                    *)
(***************************************************************************)
PrimaryAnglesIncrease == Converted => StrictlyIncreasing(Angles(web))
PrimaryAnglesWithinCircle ==
    Converted => \A i \in 1..Len(web) : web[i].angle >= 0 /\ web[i].angle < 2 * PI

\* C25: in a web converted from a successfully parsed document the primary
\* angles of the planes are strictly increasing and each lies in [0, 2*pi),
\* so that no direction has two planes.
C25_PrimaryAngles == PrimaryAnglesIncrease /\ PrimaryAnglesWithinCircle

(***************************************************************************)
(* The widths of the planes of a web cover the circle.                     *)
(***************************************************************************)
SumOfWidths == SumSeq([i \in 1..Len(web) |-> WidthValue(web[i].width)])
OrderedWithinCircle(ps) ==
    /\ Len(ps) >= 2
    /\ StrictlyIncreasing(Angles(ps))
    /\ \A i \in 1..Len(ps) : ps[i].angle >= 0 /\ ps[i].angle < 2 * PI

\* the largest distance, going up around the circle, from a plane to the next
LargestGap(ps) ==
    LET gap(i) == IF i < Len(ps) THEN ps[i + 1].angle - ps[i].angle
                  ELSE ps[1].angle + 2 * PI - ps[i].angle
    IN  CHOOSE g \in {gap(i) : i \in 1..Len(ps)} : \A i \in 1..Len(ps) : gap(i) <= g

\* C26: after set_planes on two or more planes whose primary angles are
\* strictly increasing within [0, 2*pi), the widths of the planes (lower
\* plus upper for an asymmetric width) add up to 2*pi, whatever the spacing.
C26_WidthsCoverCircle ==
    (pc = "set_planes" /\ OrderedWithinCircle(web)) => SumOfWidths = 2 * PI

\* C26 for the webs without a gap larger than pi
WidthsCoverCircleWithoutLargeGap ==
    (pc = "set_planes" /\ OrderedWithinCircle(web) /\ LargestGap(web) <= PI) =>
        SumOfWidths = 2 * PI

(***************************************************************************)
(* Parsing the same text twice into one document.                          *)
(***************************************************************************)
\* `returned` holds the document and the result of the first parse
IesSecondParseIsFirst ==
    pc = "ies_parsed_again" => (IsOk(iesRes) /\ ies = returned.doc)
LdtSecondParseIsFirst ==
    pc = "ldt_parsed_again" => (IsOk(ldtRes) /\ ldt = returned.doc)

\* C27: a second parse of the same valid text on the same IesFile or
\* EulumdatFile leaves the document equal to the one a single parse on a
\* new document gives; no array grows by the values of the first parse.
C27_SecondParseIsFirst == IesSecondParseIsFirst /\ LdtSecondParseIsFirst

(***************************************************************************)
(* The order of the webs handed to the averaging.                          *)
(***************************************************************************)
WebOrders(n) == {f \in [1..n -> 1..n] : \A i, j \in 1..n : f[i] = f[j] => i = j}
Permuted(webs, f) == [i \in 1..Len(webs) |-> webs[f[i]]]
SameWebSamples(a, b) ==
    /\ Len(a) = Len(b)
    /\ \A i \in 1..Len(a) : a[i].angle = b[i].angle /\ SameSamples(a[i], b[i])

\* C28: when the averaging succeeds on a list of webs it succeeds on every
\* permutation of the list, with the same primary angles, secondary angles
\* and intensities in the result.
C28_OrderIndependent ==
    (pc = "average" /\ returned.kind = "Ok") =>
        \A f \in WebOrders(Len(given)) :
            LET other == average_photmetric_web_intensities(Permuted(given, f)) IN
            /\ other.kind = "Ok"
            /\ SameWebSamples(other.web, returned.web)

\* C28 for the lists whose webs have their planes at the same primary angles
OrderIndependentAtSameAngles ==
    (pc = "average" /\ returned.kind = "Ok" /\ Len(given) >= 2
        /\ \A w \in 1..Len(given) : Angles(given[w]) = Angles(given[1])) =>
        \A f \in WebOrders(Len(given)) :
            LET other == average_photmetric_web_intensities(Permuted(given, f)) IN
            /\ other.kind = "Ok"
            /\ SameWebSamples(other.web, returned.web)

(***************************************************************************)
(* The averaging returns.                                                  *)
(***************************************************************************)
\* C29: for every list of one web or more the averaging returns a web or
\* an error value and does not abort, also when every web has no planes and
\* when a plane holds fewer intensities than secondary angles.
C29_AverageNeverAborts ==
    (pc = "average" /\ Len(given) >= 1) => returned.kind # "Panic"

\* C29 for the lists whose webs have planes and whose planes hold as many
\* intensities as angles
AverageReturnsOnFullPlanes ==
    (pc = "average" /\ Len(given) >= 1
        /\ \A w \in 1..Len(given) :
              /\ Len(given[w]) >= 1
              /\ \A p \in 1..Len(given[w]) :
                    Len(given[w][p].intensities) >= Len(given[w][p].angles)) =>
        returned.kind # "Panic"

(***************************************************************************)
(* total_intensity returns.                                                *)
(***************************************************************************)
EqualLengths == \A p \in 1..Len(web) : Len(web[p].angles) = Len(web[p].intensities)

\* the weight of sample i (1-based) of a plane: the one gap next to it at
\* either end, the mean of the two gaps next to it in between
LocalWeight(plane, i) ==
    IF i = 1 THEN plane.angles[2] - plane.angles[1]
    ELSE IF i = Len(plane.angles) THEN plane.angles[i] - plane.angles[i - 1]
    ELSE ((plane.angles[i] - plane.angles[i - 1]) + (plane.angles[i + 1] - plane.angles[i])) \div 2

WeightsAreLocalGaps ==
    \A p \in 1..Len(web) :
        Len(web[p].angles) >= 2 =>
            \A i \in 1..Len(web[p].angles) :
                plane_delta_angle(web[p], i - 1) = LocalWeight(web[p], i)

\* C30: total_intensity returns a number and does not abort for every web
\* built by set_planes from planes with as many intensities as angles, the
\* web without planes (result 0) and planes of one sample included; the
\* weight of a sample is the one adjacent gap at either end of the plane and
\* the mean of the two adjacent gaps in between.
C30_TotalIntensityReturns ==
    (pc = "total_intensity" /\ EqualLengths) =>
        /\ ~returned.panic
        /\ Len(web) = 0 => returned.v = 0
        /\ WeightsAreLocalGaps

\* C30 for the webs whose planes hold no sample or two samples at least
TotalIntensityReturnsFromTwoSamples ==
    (pc = "total_intensity" /\ EqualLengths
        /\ \A p \in 1..Len(web) : Len(web[p].angles) # 1) =>
        /\ ~returned.panic
        /\ Len(web) = 0 => returned.v = 0
        /\ WeightsAreLocalGaps

====
